---- MODULE Spec2Model ----
(***************************************************************************)
(* The tween scheduler of the bundle (TWEEN core + Tween class).           *)
(*                                                                         *)
(* Times are milliseconds on a 250 ms grid, durations are 0, 250, 500 or   *)
(* 1000 ms and numeric property values are 0 or 16, so that every blend    *)
(*   start + (end - start) * easing(elapsed)                               *)
(* the model computes is an integer and the integer division in Blend is   *)
(* exact.  NaN and undefined are kept as values of their own.              *)
(***************************************************************************)
EXTENDS Integers, Sequences, FiniteSets, TLC

\* ------------------------------------------------------------------ bounds
MaxTick == 4                \* the driver's clock runs over 0, 250, .., 250 * MaxTick
MaxReg == 3                 \* the registry is observed up to this length
MaxCount == 2               \* event counters saturate here
MaxLaps == 4                \* lap counters saturate here
MaxDepth == 2               \* nested autoStart calls the call stack holds
MaxListeners == 2           \* the handlers registered for one event

Tweens == {1, 2}            \* the Tween objects
TimeGrid == {250 * i : i \in 0 .. MaxTick}
Durations == {0, 250, 500}   \* the durations handed to to() and duration()
Delays == {0, 250}
Repeats == {0, 1, 2}
EasingNames == {"Linear.None", "Quadratic.In"}
\* the events whose emissions are counted
Counted == {"start", "complete"}

\* --------------------------------------------------------------- JS values
Num(n) == [k |-> "number", n |-> n]
NaN == [k |-> "NaN", n |-> 0]
Undefined == [k |-> "undefined", n |-> 0]

\* values that are not numbers: true, null, an object that is not an array,
\* and strings: one that parseFloat does not parse ("abc"), one that it parses
\* to n ("16"), and a relative one ("+16")
True == [k |-> "boolean", n |-> 1]
Null == [k |-> "null", n |-> 0]
AnObject == [k |-> "object", n |-> 0]
Str == [k |-> "string", n |-> 0]
NumStr(n) == [k |-> "numstring", n |-> n]
RelStr(n) == [k |-> "relstring", n |-> n]

\* the array [0, n]
ArrayTo(n) == [k |-> "array", n |-> n]

\* end instanceof Array
IsArray(v) == v.k = "array"

\* typeof v === 'string'
TypeofString(v) == v.k \in {"string", "numstring", "relstring"}

\* parseFloat(v) of a string
ParseFloat(v) == IF v.k = "string" THEN NaN ELSE Num(v.n)

\* a + b for a number or undefined a and a number b (undefined + b is NaN)
Plus(a, b) == IF a.k = "number" /\ b.k = "number" THEN Num(a.n + b.n) ELSE NaN

\* typeof v === 'number' (NaN is a number)
TypeofNumber(v) == v.k \in {"number", "NaN"}

\* {} (createEmptyConst of an object)
EmptyObject == [p \in {} |-> Undefined]

\* object[property]: undefined for a missing key
Get(o, p) == IF p \in DOMAIN o THEN o[p] ELSE Undefined

\* the caller's target objects, as they are when the Tweens are constructed
Objects == {[x |-> Num(0), y |-> Num(16)], [x |-> Num(16), y |-> Num(16)]}
\* the property maps handed to to()
EndMaps == {[x |-> Num(16)], [x |-> Num(0)]}

\* ------------------------------------------------------------------ easing
\* a progress value: the fraction num / den, or NaN
Frac(a, b) == [k |-> "number", num |-> a, den |-> b]
FracNaN == [k |-> "NaN", num |-> 0, den |-> 1]

\* Exact fractions num / den in lowest terms with den > 0, so that two numbers
\* are equal exactly when their records are.
RECURSIVE GCD(_, _)
GCD(m, n) == IF n = 0 THEN m ELSE GCD(n, m % n)

Abs(n) == IF n < 0 THEN 0 - n ELSE n

Ratio(num, den) ==
  LET g == GCD(Abs(num), den)
  IN [k |-> "number", num |-> num \div g, den |-> den \div g]

Whole(n) == Ratio(n, 1)

\* a - b, a + b and a * b; NaN when an operand is NaN.  The sum is formed
\* over the least common denominator.
Minus(a, b) ==
  IF a.k = "number" /\ b.k = "number"
    THEN LET g == GCD(a.den, b.den)
         IN Ratio(a.num * (b.den \div g) - b.num * (a.den \div g),
                  (a.den \div g) * b.den)
    ELSE FracNaN

Sum(a, b) ==
  IF a.k = "number" /\ b.k = "number"
    THEN LET g == GCD(a.den, b.den)
         IN Ratio(a.num * (b.den \div g) + b.num * (a.den \div g),
                  (a.den \div g) * b.den)
    ELSE FracNaN

Times(a, b) ==
  IF a.k = "number" /\ b.k = "number"
    THEN Ratio(a.num * b.num, a.den * b.den)
    ELSE FracNaN

\* a < b
Below(a, b) == a.num * b.den < b.num * a.den

\* x * x * .. * x, n factors
RECURSIVE Power(_, _)
Power(x, n) == IF n = 0 THEN Whole(1) ELSE Times(x, Power(x, n - 1))

\* Math.sqrt(x) where the root is a fraction of small terms
Sqrt(x) ==
  CHOOSE r \in {Ratio(n, d) : n \in 0 .. 5, d \in 1 .. 5} : Times(r, r) = x

\* Math.cos(h * Math.PI) and Math.sin(h * Math.PI) where h is a multiple of
\* 1/2, as real numbers
CosPi(h) ==
  LET q == ((2 * h.num) \div h.den) % 4
  IN CHOOSE c \in {Whole(1), Whole(0), Whole(0 - 1)} :
       /\ (2 * h.num) % h.den = 0
       /\ c = IF q = 0 THEN Whole(1) ELSE IF q = 2 THEN Whole(0 - 1) ELSE Whole(0)

SinPi(h) == CosPi(Minus(h, Ratio(1, 2)))

\* Math.pow(1024, x) where 10 * x is an integer
Pow1024(x) ==
  LET n == (10 * x.num) \div x.den
  IN CHOOSE v \in {IF n >= 0 THEN Whole(2 ^ n) ELSE Ratio(1, 2 ^ (0 - n))} :
       (10 * x.num) % x.den = 0

\* Easing.Bounce.Out(k); 7.5625 is 121/16 and 2.75 is 11/4
BounceOut(k) ==
  LET c == Ratio(121, 16)
      Sq(x) == Times(x, x)
  IN IF Below(k, Ratio(4, 11)) THEN Times(c, Sq(k))
     ELSE IF Below(k, Ratio(8, 11))
       THEN Sum(Times(c, Sq(Minus(k, Ratio(6, 11)))), Ratio(3, 4))
     ELSE IF Below(k, Ratio(10, 11))
       THEN Sum(Times(c, Sq(Minus(k, Ratio(9, 11)))), Ratio(15, 16))
     ELSE Sum(Times(c, Sq(Minus(k, Ratio(21, 22)))), Ratio(63, 64))

\* Easing.Bounce.In(k)
BounceIn(k) == Minus(Whole(1), BounceOut(Minus(Whole(1), k)))

\* The Easing table: Easing[family][variant](k) for name = family.variant, in
\* real arithmetic (the rounding of floating-point numbers is not modelled).
\* k2 is k after k *= 2, km1 is k after --k, k2m2 is k after k *= 2 and
\* k -= 2.
EasingTable(name, k) ==
  LET zero == Whole(0)
      one == Whole(1)
      two == Whole(2)
      half == Ratio(1, 2)
      Neg(x) == Minus(zero, x)
      Sq(x) == Times(x, x)
      k2 == Times(two, k)
      km1 == Minus(k, one)
      k2m1 == Minus(k2, one)
      k2m2 == Minus(k2, two)
      s == Ratio(170158, 100000)
      s2 == Times(s, Ratio(1525, 1000))
  IN CASE name = "Linear.None" -> k
       [] name = "Quadratic.In" -> Times(k, k)
       [] name = "Quadratic.Out" -> Times(k, Minus(two, k))
       [] name = "Quadratic.InOut" ->
            IF Below(k2, one) THEN Times(half, Sq(k2))
            ELSE Times(Neg(half), Minus(Times(k2m1, Minus(k2m1, two)), one))
       [] name = "Cubic.In" -> Power(k, 3)
       [] name = "Cubic.Out" -> Sum(Power(km1, 3), one)
       [] name = "Cubic.InOut" ->
            IF Below(k2, one) THEN Times(half, Power(k2, 3))
            ELSE Times(half, Sum(Power(k2m2, 3), two))
       [] name = "Quartic.In" -> Power(k, 4)
       [] name = "Quartic.Out" -> Minus(one, Power(km1, 4))
       [] name = "Quartic.InOut" ->
            IF Below(k2, one) THEN Times(half, Power(k2, 4))
            ELSE Times(Neg(half), Minus(Power(k2m2, 4), two))
       [] name = "Quintic.In" -> Power(k, 5)
       [] name = "Quintic.Out" -> Sum(Power(km1, 5), one)
       [] name = "Quintic.InOut" ->
            IF Below(k2, one) THEN Times(half, Power(k2, 5))
            ELSE Times(half, Sum(Power(k2m2, 5), two))
       [] name = "Sinusoidal.In" -> Minus(one, CosPi(Times(k, half)))
       [] name = "Sinusoidal.Out" -> SinPi(Times(k, half))
       [] name = "Sinusoidal.InOut" -> Times(half, Minus(one, CosPi(k)))
       [] name = "Exponential.In" ->
            IF k = zero THEN zero ELSE Pow1024(km1)
       [] name = "Exponential.Out" ->
            IF k = one THEN one ELSE Minus(one, Sq(Times(Whole(0 - 10), k)))
       [] name = "Exponential.InOut" ->
            IF k = zero THEN zero
            ELSE IF k = one THEN one
            ELSE IF Below(k2, one) THEN Times(half, Pow1024(k2m1))
            ELSE Times(half, Sum(Neg(Sq(Times(Whole(0 - 10), k2m1))), two))
       [] name = "Circular.In" -> Minus(one, Sqrt(Minus(one, Sq(k))))
       [] name = "Circular.Out" -> Sqrt(Minus(one, Sq(km1)))
       [] name = "Circular.InOut" ->
            IF Below(k2, one)
              THEN Times(Neg(half), Minus(Sqrt(Minus(one, Sq(k2))), one))
              ELSE Times(half, Sum(Sqrt(Minus(one, Sq(k2m2))), one))
       [] name = "Elastic.In" ->
            IF k = zero THEN zero
            ELSE IF k = one THEN one
            ELSE Times(Neg(Sq(Times(Whole(10), km1))),
                       SinPi(Times(Minus(k, Ratio(11, 10)), Whole(5))))
       [] name = "Elastic.Out" ->
            IF k = zero THEN zero
            ELSE IF k = one THEN one
            ELSE Sum(Times(Sq(Times(Whole(0 - 10), k)),
                           SinPi(Times(Minus(k, Ratio(1, 10)), Whole(5)))), one)
       [] name = "Elastic.InOut" ->
            IF k = zero THEN zero
            ELSE IF k = one THEN one
            ELSE IF Below(k2, one)
              THEN Times(Times(Neg(half), Sq(Times(Whole(10), k2m1))),
                         SinPi(Times(Minus(k2, Ratio(11, 10)), Whole(5))))
              ELSE Sum(Times(Times(half, Sq(Times(Whole(0 - 10), k2m1))),
                             SinPi(Times(Minus(k2, Ratio(11, 10)), Whole(5)))),
                       one)
       [] name = "Back.In" ->
            Times(Sq(k), Minus(Times(Sum(s, one), k), s))
       [] name = "Back.Out" ->
            Sum(Times(Sq(km1), Sum(Times(Sum(s, one), km1), s)), one)
       [] name = "Back.InOut" ->
            IF Below(k2, one)
              THEN Times(half, Times(Sq(k2), Minus(Times(Sum(s2, one), k2), s2)))
              ELSE Times(half,
                         Sum(Times(Sq(k2m2), Sum(Times(Sum(s2, one), k2m2), s2)),
                             two))
       [] name = "Bounce.In" -> BounceIn(k)
       [] name = "Bounce.Out" -> BounceOut(k)
       [] name = "Bounce.InOut" ->
            IF Below(k, half) THEN Times(BounceIn(k2), half)
            ELSE Sum(Times(BounceOut(k2m1), half), half)

\* Elapsed without the clamp to 1
ElapsedUnclamped(time, startTime, duration) ==
  IF duration = 0
    THEN IF time = startTime THEN FracNaN ELSE Frac(1, 1)
    ELSE Frac(time - startTime, duration)

\* elapsed = (time - _startTime) / _duration; elapsed = elapsed > 1 ? 1 : elapsed
\* (0 / 0 is NaN, and NaN > 1 is false; n / 0 is Infinity for n > 0)
Elapsed(time, startTime, duration) ==
  IF duration = 0
    THEN IF time = startTime THEN FracNaN ELSE Frac(1, 1)
    ELSE IF time - startTime > duration THEN Frac(1, 1)
         ELSE Frac(time - startTime, duration)

\* elapsed === 1
IsOne(e) == e.k = "number" /\ e.num = e.den

\* _easingFunction(elapsed): Easing.Linear.None(k) = k, Easing.Quadratic.In(k)
\* = k * k, and the other functions of the table
Ease(name, e) ==
  IF e.k = "NaN" THEN FracNaN
  ELSE IF name = "Linear.None" THEN e
  ELSE IF name = "Quadratic.In" THEN Frac(e.num * e.num, e.den * e.den)
  ELSE EasingTable(name, Ratio(e.num, e.den))

\* object[property] = start + (end - start) * value
Blend(start, end, value) ==
  IF start.k = "number" /\ end.k = "number" /\ value.k = "number"
    THEN Num(start.n + ((end.n - start.n) * value.num) \div value.den)
    ELSE NaN

\* ----------------------------------------------------------- interpolation
\* Interpolation[name]: the table has the functions Linear, Bezier and
\* CatmullRom (and Utils); any other key is undefined
InterpolationTable(name) ==
  IF name \in {"Linear", "Bezier", "CatmullRom"} THEN name ELSE "undefined"

\* Interpolation.Linear(v, k) for the array v = [0, n] and 0 <= k <= 1:
\* m = 1, f = k, i = floor(k); Utils.Linear(v[i], v[min(i + 1, m)], f - i)
InterpolationLinear(v, k) ==
  IF k.k = "NaN" THEN NaN
  ELSE IF k.num = k.den THEN Blend(Num(v.n), Num(v.n), Frac(0, 1))
  ELSE Blend(Num(0), Num(v.n), k)

\* -------------------------------------------------------------- Tween class
\* new Tween(object)
NewTween(object) ==
  [ object |-> object,
    _valuesStart |-> object,
    _valuesStartRepeat |-> object,
    _valuesEnd |-> EmptyObject,
    _chainedTweens |-> << >>,
    _duration |-> 1000,
    _easingFunction |-> "Linear.None",
    _interpolationFunction |-> InterpolationTable("None"),
    _startTime |-> 0,
    _delayTime |-> 0,
    _repeat |-> 0,
    _r |-> 0,
    _repeatDelayTime |-> 0,
    _reverseDelayTime |-> 0,
    _isPlaying |-> FALSE,
    _yoyo |-> FALSE,
    _reversed |-> FALSE,
    _onStartCallbackFired |-> FALSE,
    _pausedTime |-> 0,
    _events |-> [n \in {} |-> << >>] ]

\* ------------------------------------------------------- the program state
\* A state st is a record:
\*   tw       the Tween objects, by identity
\*   reg      _tweens, the registry, as a sequence of Tween identities
\*   time     _time
\* and, recorded for the properties (never read by the program):
\*   emitted  the events emitted by the operation in progress, in order
\*   called   the handlers invoked by the operation in progress, in order,
\*            each with the Tween and the event it was registered for
\*   offed    the handlers handed to off(name, fn), each with its Tween and
\*            event, until the handler is registered again
\*   onned    the handlers registered with on(name, fn), each with its Tween
\*            and event, until the handler is handed to off(name, fn)
\*   updated  per Tween, how often the operation in progress has invoked its
\*            update(time) from the scheduler's loop
\*   fired    per Tween and counted event name, how often it was emitted
\*   laps     per Tween, how many updates reached elapsed === 1
\*   halt     per Tween, "stopped"/"paused" after an effective stop()/pause(),
\*            "none" after start(), play() or restart()
\*   given    per Tween, the property map last handed to to()
\* The animation-frame loop:
\*   autoPlay   _autoPlay
\*   isStarted  isStarted
\*   pending    the number of frame callbacks requested and neither run nor
\*              cancelled
\*   tickLive   whether the callback whose handle is _tick is one of them
\*   depth      the number of autoStart calls on the call stack
\*   thrown     an exception is propagating out of the operation in progress
\*              (the call stack is exhausted, or a handler that is not a
\*              function was called)

\*   hung       the operation in progress never returns: the scheduler's loop
\*              has come back to a configuration it has been in
\*   seen       the configurations the loop of the update in progress has
\*              been in

\* an exception is propagating, or the call in progress never returns: nothing
\* further is executed
Halted(st) == st.thrown \/ st.hung

\* TWEEN.add: with autoPlay on and the loop not started, autoStart(now()) is
\* called, and after it isStarted is set
RECURSIVE AutoStart(_, _)
\* isStarted = true, reached unless autoStart threw
SetStarted(st) == IF Halted(st) THEN st ELSE [st EXCEPT !.isStarted = TRUE]

\* _tweens.push(tween)
Push(st, id) == [st EXCEPT !.reg = Append(@, id)]

CoreAdd(st, id) ==
  IF st.autoPlay /\ ~ st.isStarted
    THEN SetStarted(AutoStart(Push(st, id), st.time))
    ELSE Push(st, id)

\* TWEEN.remove: the filtered copy is dropped, _tweens is not assigned
CoreRemove(st, id) == st

\* ---------------------------------------------------------------- listeners
\* An event handler is a function, here one that makes one call on a Tween
\* (start(), stop() or pause()), or a value that is not a function.  A handler
\* registered with once() is held in a wrapper function (once: TRUE).
Fn(call, id) == [k |-> "function", call |-> call, tween |-> id, once |-> FALSE]
NotAFunction == [k |-> "number", call |-> "none", tween |-> 0, once |-> FALSE]

\* this._events[name]; an undefined entry has no handlers
Listeners(t, name) ==
  IF name \in DOMAIN t._events THEN t._events[name] ELSE << >>

\* Tween.on(name, fn)
TweenOn(t, name, fn) ==
  [t EXCEPT !._events =
     [n \in DOMAIN t._events \cup {name} |->
        IF n = name THEN Append(Listeners(t, name), fn) ELSE t._events[n]]]

\* Tween.once(name, fn): on(name, wrapper of fn)
TweenOnce(t, name, fn) == TweenOn(t, name, [fn EXCEPT !.once = TRUE])

\* Tween.off(name): this._events[name] = [], if the entry is defined
TweenOffAll(t, name) ==
  IF name \in DOMAIN t._events THEN [t EXCEPT !._events[name] = << >>] ELSE t

\* Tween.off(name, fn): filter returns a new array, which is dropped;
\* this._events[name] is not assigned
TweenOff(t, name, fn) ==
  IF name \notin DOMAIN t._events THEN t
  ELSE LET filtered == SelectSeq(t._events[name], LAMBDA event : event # fn)
       IN t

\* the emission is recorded for the properties
Record(st, id, name) ==
  [st EXCEPT !.emitted = Append(@, <<id, name>>),
             !.fired[id] = IF name \in Counted /\ @[name] < MaxCount
                             THEN [@ EXCEPT ![name] = @ + 1] ELSE @]

RECURSIVE TweenStart(_, _, _)
RECURSIVE TweenStop(_, _)
RECURSIVE TweenPause(_, _)
RECURSIVE StopChained(_, _)

\* fn.call(this, ...args): the function runs, at scheduler time now; a value
\* that is not a function cannot be called (TypeError)
CallFn(st, h) ==
  IF h.k # "function" THEN [st EXCEPT !.thrown = TRUE]
  ELSE IF h.call = "start" THEN TweenStart(st, h.tween, st.time)
  ELSE IF h.call = "stop" THEN TweenStop(st, h.tween)
  ELSE TweenPause(st, h.tween)

\* the wrapper of once(), after fn has run: _this.off(name)
OnceDone(st, h, id, name) ==
  IF Halted(st) \/ ~ h.once THEN st
  ELSE [st EXCEPT !.tw[id] = TweenOffAll(@, name)]

\* the invocation is recorded for the properties
Heard(st, h, id, name) == [st EXCEPT !.called = Append(@, <<id, name, h>>)]

\* event.call(this, ...args) for a handler of Tween id's event name
CallHandler(st, h, id, name) ==
  OnceDone(CallFn(Heard(st, h, id, name), h), h, id, name)

\* this._events[name].map(event => event.call(this, ...args)): map runs over
\* the array as it is when the emission begins
RECURSIVE RunHandlers(_, _, _, _)
RunHandlers(st, hs, id, name) ==
  IF hs = << >> \/ Halted(st) THEN st
  ELSE RunHandlers(CallHandler(st, Head(hs), id, name), Tail(hs), id, name)

\* Tween.emit(name, ...args)
Emit(st, id, name) ==
  IF Halted(st) THEN st
  ELSE RunHandlers(Record(st, id, name), Listeners(st.tw[id], name), id, name)

\* Tween.start(time); start() is start(TWEEN.now())
SetPlaying(st, id) ==
  IF Halted(st) THEN st
  ELSE [st EXCEPT !.tw[id]._isPlaying = TRUE, !.halt[id] = "none"]

TweenStart(st, id, time) ==
  SetPlaying(CoreAdd([st EXCEPT !.tw[id]._startTime = time + st.tw[id]._delayTime],
                     id), id)

\* StartChained starting no successor
StartChainedNone(st, chain, time) == st

\* _chainedTweens.map(tween => tween.start(time))
RECURSIVE StartChained(_, _, _)
StartChained(st, chain, time) ==
  IF chain = << >> \/ Halted(st) THEN st
  ELSE StartChained(TweenStart(st, Head(chain), time), Tail(chain), time)

\* StopChained stopping no successor
StopChainedNone(st, chain) == st

\* Tween.stop and Tween.stopChainedTweens
TweenStop(st, id) ==
  IF ~ st.tw[id]._isPlaying THEN st
  ELSE Emit(StopChained([CoreRemove(st, id) EXCEPT !.tw[id]._isPlaying = FALSE,
                                                   !.halt[id] = "stopped"],
                        st.tw[id]._chainedTweens), id, "stop")

StopChained(st, chain) ==
  IF chain = << >> \/ Halted(st) THEN st
  ELSE StopChained(TweenStop(st, Head(chain)), Tail(chain))

\* TweenPause without the test of _isPlaying
TweenPauseAlways(st, id) ==
  Emit([CoreRemove(st, id) EXCEPT !.tw[id]._isPlaying = FALSE,
                                  !.halt[id] = "paused",
                                  !.tw[id]._pausedTime = st.time], id, "pause")

\* Tween.pause
TweenPause(st, id) ==
  IF ~ st.tw[id]._isPlaying THEN st
  ELSE LET s1 == [st EXCEPT !.tw[id]._isPlaying = FALSE, !.halt[id] = "paused"]
           s2 == CoreRemove(s1, id)
           s3 == [s2 EXCEPT !.tw[id]._pausedTime = s2.time]
       IN Emit(s3, id, "pause")

\* Tween.play, after TWEEN.add(this)
Played(st, id) ==
  IF Halted(st) THEN st
  ELSE Emit([st EXCEPT !.tw[id]._pausedTime = st.time], id, "play")

\* Tween.play
TweenPlay(st, id) ==
  IF st.tw[id]._isPlaying THEN st
  ELSE LET s1 == [st EXCEPT !.tw[id]._isPlaying = TRUE,
                            !.tw[id]._startTime = @ + st.time - st.tw[id]._pausedTime,
                            !.halt[id] = "none"]
       IN Played(CoreAdd(s1, id), id)

\* Math.max(0, Math.min(time, duration))
Clamp(time, duration) ==
  LET m == IF time < duration THEN time ELSE duration
  IN IF m > 0 THEN m ELSE 0

\* Tween.seek, after the 'seek' event: keepPlaying ? this : this.pause()
Sought(st, id, keepPlaying) ==
  IF Halted(st) \/ keepPlaying THEN st ELSE TweenPause(st, id)

\* Tween.seek(time, keepPlaying); TWEEN.now() is _time
TweenSeek(st, id, time, keepPlaying) ==
  Sought(Emit([st EXCEPT !.tw[id]._startTime =
                            st.time + Clamp(time, st.tw[id]._duration)],
              id, "seek"), id, keepPlaying)

\* Tween.restart, after the add
Restarted(st, id) == IF Halted(st) THEN st ELSE Emit(st, id, "restart")

\* Tween.restart(noDelay)
TweenRestart(st, id, noDelay) ==
  LET s1 == [st EXCEPT !.tw[id]._startTime =
                          st.time + (IF noDelay THEN 0 ELSE st.tw[id]._delayTime),
                       !.halt[id] = "none"]
  IN Restarted(IF ~ s1.tw[id]._isPlaying THEN CoreAdd(s1, id) ELSE s1, id)

\* this._onStartCallbackFired = true, after the 'start' event
SetFired(st, id) ==
  IF Halted(st) THEN st ELSE [st EXCEPT !.tw[id]._onStartCallbackFired = TRUE]

\* FireStart without the fired-flag
FireStartUnguarded(st, id) == Emit(st, id, "start")

\* Tween.update, the start guard: 'start' is emitted once, then the flag is set
FireStart(st, id) ==
  IF st.tw[id]._onStartCallbackFired = FALSE
    THEN SetFired(Emit(st, id, "start"), id)
    ELSE st

\* Tween.update, the end value of a property as the loop uses it: a string is
\* parsed first, a relative one ('+10', '-3') with the start value as base
EndOf(start, end) ==
  IF ~ TypeofString(end) THEN end
  ELSE IF end.k = "relstring" THEN Plus(start, ParseFloat(end))
  ELSE ParseFloat(end)

\* for (property in _valuesEnd): the keys are visited in the order they were
\* written in the object literal, x before y
Position(p) == IF p = "x" THEN 1 ELSE 2

\* Tween.update, the loop over _valuesEnd: the keys whose array end value is
\* handed to an _interpolationFunction that is not a function (TypeError)
Uncallable(t) ==
  {p \in DOMAIN t._valuesEnd :
     IsArray(t._valuesEnd[p]) /\ t._interpolationFunction = "undefined"}

\* the keys the loop visits before it throws, all keys if it does not
Visited(t) ==
  {p \in DOMAIN t._valuesEnd :
     \A q \in Uncallable(t) : Position(p) < Position(q)}

\* Tween.update, the loop over _valuesEnd: the target object after the writes.
\* An array end value is handed to the interpolation function (Linear, as far
\* as the model goes); of the others only an end value with typeof 'number'
\* is written.
ApplyValues(t, value) ==
  LET arrays == {p \in Visited(t) : IsArray(t._valuesEnd[p])}
      written == {p \in Visited(t) \ arrays :
                    TypeofNumber(EndOf(Get(t._valuesStart, p), t._valuesEnd[p]))}
  IN [p \in DOMAIN t.object \cup written \cup arrays |->
        IF p \in arrays
          THEN InterpolationLinear(t._valuesEnd[p], value)
        ELSE IF p \in written
          THEN Blend(Get(t._valuesStart, p),
                     EndOf(Get(t._valuesStart, p), t._valuesEnd[p]), value)
          ELSE t.object[p]]

\* Tween.update, after the loop over _valuesEnd: the TypeError of an
\* interpolation function that is not a function propagates
Written(st, t) ==
  IF Uncallable(t) # {} THEN [st EXCEPT !.thrown = TRUE] ELSE st

\* Tween.update, the loop over _valuesStartRepeat at a lap end that is followed
\* by another lap: under yoyo the repeat-start and end values are swapped, and
\* the start values are reset to the repeat-start values.
Rewind(t) ==
  LET K == DOMAIN t._valuesStartRepeat
      \* a string end value is added to the repeat-start value first
      bumped == [p \in K |->
                   IF TypeofString(Get(t._valuesEnd, p))
                     THEN Plus(t._valuesStartRepeat[p], ParseFloat(t._valuesEnd[p]))
                     ELSE t._valuesStartRepeat[p]]
      vsr == [p \in K |-> IF t._yoyo THEN Get(t._valuesEnd, p) ELSE bumped[p]]
      vE == IF t._yoyo
              THEN [p \in DOMAIN t._valuesEnd \cup K |->
                      IF p \in K THEN bumped[p] ELSE t._valuesEnd[p]]
              ELSE t._valuesEnd
      vS == [p \in DOMAIN t._valuesStart \cup K |->
               IF p \in K THEN vsr[p] ELSE t._valuesStart[p]]
  IN [t EXCEPT !._valuesStartRepeat = vsr, !._valuesEnd = vE, !._valuesStart = vS]

\* this.emit(_reversed ? 'repeat' : 'reverse', object)
LapEvent(reversed) == IF reversed THEN "repeat" ELSE "reverse"

\* the start time of the next lap (0 is falsy)
NextLapStart(t, time) ==
  IF t._reversed /\ t._repeatDelayTime # 0 THEN time + t._repeatDelayTime
  ELSE IF ~ t._reversed /\ t._reverseDelayTime # 0 THEN time + t._reverseDelayTime
  ELSE time + t._delayTime

\* the remaining repeat count after a lap end: the decrement is made on the
\* local copy of _repeat and never stored back
RepeatAfterLap(t) == t._repeat

CountLap(st, id) == [st EXCEPT !.laps[id] = IF @ < MaxLaps THEN @ + 1 ELSE @]

\* Tween.update after the chained Tweens are started: this._repeat = this._r;
\* return false
Completed(st, id) ==
  IF Halted(st) THEN [st |-> st, ret |-> FALSE]
  ELSE [st |-> CountLap([st EXCEPT !.tw[id]._repeat = st.tw[id]._r], id),
        ret |-> FALSE]

\* Tween.update after the 'repeat'/'reverse' event of a lap end: the direction
\* and the next lap's start time are stored; return true.  t holds the values
\* the call read into its locals when it began.
NextLap(st, t, id, time) ==
  IF Halted(st) THEN [st |-> st, ret |-> FALSE]
  ELSE [st |-> CountLap([st EXCEPT
                           !.tw[id]._reversed = IF t._yoyo THEN ~ t._reversed ELSE @,
                           !.tw[id]._startTime = NextLapStart(t, time),
                           !.tw[id]._repeat = RepeatAfterLap(t)], id),
        ret |-> TRUE]

\* Tween.update after the 'update' event: if (elapsed === 1) { .. } return true
LapEnd(st, t, id, time) ==
  IF Halted(st) THEN [st |-> st, ret |-> FALSE]
  ELSE IF ~ IsOne(Elapsed(time, t._startTime, t._duration))
    THEN [st |-> st, ret |-> TRUE]
  ELSE IF t._repeat > 0
    THEN NextLap(Emit([st EXCEPT !.tw[id] = Rewind(@)], id, LapEvent(t._reversed)),
                 t, id, time)
    ELSE Completed(StartChained(Emit(st, id, "complete"), t._chainedTweens,
                                t._startTime + t._duration), id)

\* Tween.update after the start guard: the values are written, 'update' fires
Advance(st, t, id, time) ==
  IF Halted(st) THEN [st |-> st, ret |-> FALSE]
  ELSE LapEnd(Emit(Written([st EXCEPT !.tw[id].object =
                      ApplyValues([t EXCEPT !.object = st.tw[id].object],
                                  Ease(t._easingFunction,
                                       Elapsed(time, t._startTime, t._duration)))],
                           t),
                   id, "update"), t, id, time)

\* NotYetDue that lets every update through
NotYetDueNever(t, time) == FALSE

\* Tween.update, the guard: time < _startTime
NotYetDue(t, time) == time < t._startTime

\* Tween.update(time): the state after it and its return value
TweenUpdate(st, id, time) ==
  IF NotYetDue(st.tw[id], time) THEN [st |-> st, ret |-> TRUE]
  ELSE Advance(FireStart(st, id), st.tw[id], id, time)

\* Tween.end(): this.update(_startTime + _duration); the call is recorded in
\* halt as "ended"
TweenEnd(st, id) ==
  LET r == TweenUpdate(st, id, st.tw[id]._startTime + st.tw[id]._duration)
  IN IF Halted(r.st) THEN r.st ELSE [r.st EXCEPT !.halt[id] = "ended"]

\* ------------------------------------------------------------ TWEEN core
\* _tweens.splice(i, 1)
Splice(reg, i) == SubSeq(reg, 1, i - 1) \o SubSeq(reg, i + 1, Len(reg))

\* what the rest of the loop, at index i, depends on: the Tweens, the entries
\* from i on and the state of the frame loop (and the whole registry where a
\* nested update would run over it)
LoopConfig(st, i) ==
  [tw |-> st.tw, rest |-> SubSeq(st.reg, i, Len(st.reg)),
   auto |-> <<st.autoPlay, st.isStarted, st.pending, st.tickLive, st.depth>>,
   all |-> IF st.autoPlay /\ ~ st.isStarted THEN <<i, st.reg>> ELSE << >>]

\* TWEEN.update, the while loop from index i on
RECURSIVE UpdateLoop(_, _, _, _)
\* LoopStep that goes on to index i + 1 after the splice as well
LoopStepSkipping(r, i, time, preserve) ==
  IF Halted(r.st) THEN r.st
  ELSE IF r.ret \/ preserve
    THEN UpdateLoop(r.st, i + 1, time, preserve)
    ELSE UpdateLoop([r.st EXCEPT !.reg = Splice(@, i)], i + 1, time, preserve)

\* the loop's body after _tweens[i].update(time) has returned r
LoopStep(r, i, time, preserve) ==
  IF Halted(r.st) THEN r.st
  ELSE IF r.ret \/ preserve
    THEN UpdateLoop(r.st, i + 1, time, preserve)
    ELSE UpdateLoop([r.st EXCEPT !.reg = Splice(@, i)], i, time, preserve)

\* The loop is deterministic in its configuration: when it comes back to one
\* it has been in, it never ends.
UpdateLoop(st, i, time, preserve) ==
  IF ~ (i <= Len(st.reg)) THEN st
  ELSE IF LoopConfig(st, i) \in st.seen THEN [st EXCEPT !.hung = TRUE]
  ELSE LoopStep(TweenUpdate([st EXCEPT !.seen = @ \cup {LoopConfig(st, i)},
                                       !.updated[st.reg[i]] =
                                         IF @ < MaxCount THEN @ + 1 ELSE @],
                            st.reg[i], time), i, time, preserve)

\* NothingToUpdate without the test of the registry's length
NothingToUpdateNever(st) == FALSE

\* TWEEN.update, the early return: nothing is registered when the call begins
NothingToUpdate(st) == Len(st.reg) = 0

\* TWEEN.update(time, preserve): the state after it and its return value
CoreUpdate(st, time, preserve) ==
  IF NothingToUpdate(st) THEN [st |-> [st EXCEPT !.time = time], ret |-> FALSE]
  ELSE [st |-> [UpdateLoop([st EXCEPT !.time = time, !.seen = {}],
                           1, time, preserve) EXCEPT !.seen = st.seen],
        ret |-> TRUE]

\* autoStart after update(_time) has returned r: _time = time and the next
\* frame is requested, or the loop is stopped and the frame _tick cancelled
Rescheduled(r, time) ==
  IF Halted(r.st) THEN [r.st EXCEPT !.depth = @ - 1]
  ELSE IF r.ret
    THEN [r.st EXCEPT !.depth = @ - 1, !.time = time,
                      !.pending = @ + 1, !.tickLive = TRUE]
    ELSE [r.st EXCEPT !.depth = @ - 1, !.isStarted = FALSE,
                      !.pending = IF r.st.tickLive THEN @ - 1 ELSE @,
                      !.tickLive = FALSE]

\* autoStart(time): update(_time), then either the next frame is requested or
\* the loop is stopped.  The call stack holds MaxDepth nested calls.
AutoStart(st, time) ==
  IF st.depth >= MaxDepth THEN [st EXCEPT !.thrown = TRUE]
  ELSE Rescheduled(CoreUpdate([st EXCEPT !.depth = @ + 1], st.time, FALSE), time)

\* CoreRemoveAll removing nothing
CoreRemoveAllNone(st) == st

\* TWEEN.removeAll
CoreRemoveAll(st) == [st EXCEPT !.reg = << >>]

\* ------------------------------------------------- the interpolation module
\* Numbers in this module are the exact fractions defined with the easing
\* functions: num / den in lowest terms with den > 0, so that two numbers are
\* equal exactly when their records are.
\* Math.round(v): the nearest integer, a half going up; NaN stays NaN
MathRound(v) ==
  IF v.k = "number" THEN Whole((2 * v.num + v.den) \div (2 * v.den))
  ELSE FracNaN

\* Math.max(0, Math.min(255, v)); NaN stays NaN
Clamp255(v) ==
  IF v.k # "number" THEN FracNaN
  ELSE IF v.num < 0 THEN Whole(0)
  ELSE IF v.num > 255 * v.den THEN Whole(255)
  ELSE v

\* Strings are sequences of characters.
HexDigits ==
  <<"0", "1", "2", "3", "4", "5", "6", "7",
    "8", "9", "a", "b", "c", "d", "e", "f">>

IsHexDigit(c) == \E i \in 1 .. 16 : HexDigits[i] = c

\* parseInt(c, 16) of one digit
DigitValue(c) == (CHOOSE i \in 1 .. 16 : HexDigits[i] = c) - 1

\* n.toString(16) of an integer n
RECURSIVE ToString16(_)
ToString16(n) ==
  IF n < 0 THEN <<"-">> \o ToString16(0 - n)
  ELSE IF n < 16 THEN <<HexDigits[n + 1]>>
  ELSE ToString16(n \div 16) \o <<HexDigits[(n % 16) + 1]>>

\* FormatChannel without the leading "0"
FormatChannelUnpadded(v) ==
  ToString16(IF v.k = "number" THEN v.num ELSE 0)

\* one channel of format: NaN is 0, a value below 16 gets a leading "0"
FormatChannel(v) ==
  LET n == IF v.k = "number" THEN v.num ELSE 0
  IN IF n < 16 THEN <<"0">> \o ToString16(n) ELSE ToString16(n)

\* format(r, g, b) of integer or NaN channels
format(r, g, b) ==
  <<"#">> \o FormatChannel(r) \o FormatChannel(g) \o FormatChannel(b)

\* new Rgb(r, g, b)
Rgb(r, g, b) ==
  [ok |-> TRUE,
   r |-> Clamp255(MathRound(r)),
   g |-> Clamp255(MathRound(g)),
   b |-> Clamp255(MathRound(b))]

\* color(format) of "#rgb", of "#rrggbb" and of a string that is no color
\* (null); the other notations are not among the strings of the model
color(s) ==
  IF Len(s) = 4 /\ s[1] = "#" /\ \A i \in 2 .. 4 : IsHexDigit(s[i])
    THEN Rgb(Whole(17 * DigitValue(s[2])), Whole(17 * DigitValue(s[3])),
             Whole(17 * DigitValue(s[4])))
  ELSE IF Len(s) = 7 /\ s[1] = "#" /\ \A i \in 2 .. 7 : IsHexDigit(s[i])
    THEN Rgb(Whole(16 * DigitValue(s[2]) + DigitValue(s[3])),
             Whole(16 * DigitValue(s[4]) + DigitValue(s[5])),
             Whole(16 * DigitValue(s[6]) + DigitValue(s[7])))
  ELSE [ok |-> FALSE, r |-> FracNaN, g |-> FracNaN, b |-> FracNaN]

\* rgb(x) of one string
rgb(s) ==
  IF color(s).ok THEN color(s) ELSE Rgb(FracNaN, FracNaN, FracNaN)

\* ------------------------------------------------ the numbers inside strings
IsDigit(c) == c \in {"0", "1", "2", "3", "4", "5", "6", "7", "8", "9"}

\* the character of s at position p (positions count from 1), "" past the end
CharAt(s, p) == IF p >= 1 /\ p <= Len(s) THEN s[p] ELSE ""

\* the length of the run of digits of s that starts at p: \d*
RECURSIVE DigitRun(_, _)
DigitRun(s, p) == IF IsDigit(CharAt(s, p)) THEN 1 + DigitRun(s, p + 1) ELSE 0

\* the length of the match of (?:\d+\.?\d*|\.?\d+) at p, 0 if there is none
MantissaLen(s, p) ==
  LET d == DigitRun(s, p)
  IN IF d > 0
       THEN IF CharAt(s, p + d) = "." THEN d + 1 + DigitRun(s, p + d + 1)
            ELSE d
     ELSE IF CharAt(s, p) = "." /\ DigitRun(s, p + 1) > 0
       THEN 1 + DigitRun(s, p + 1)
     ELSE 0

\* the length of the match of (?:[eE][-+]?\d+)? at p
ExponentLen(s, p) ==
  LET sg == IF CharAt(s, p + 1) \in {"-", "+"} THEN 1 ELSE 0
  IN IF CharAt(s, p) \in {"e", "E"} /\ DigitRun(s, p + 1 + sg) > 0
       THEN 1 + sg + DigitRun(s, p + 1 + sg)
       ELSE 0

\* the length of the match of reA at p, 0 if there is none
MatchAt(s, p) ==
  LET sg == IF CharAt(s, p) \in {"-", "+"} THEN 1 ELSE 0
      m == MantissaLen(s, p + sg)
  IN IF m = 0 THEN 0 ELSE sg + m + ExponentLen(s, p + sg + m)

\* reA.exec(s) with the scan at position from: the first match at or after
\* it, index 0 for null
RECURSIVE Exec(_, _)
Exec(s, from) ==
  IF from > Len(s) THEN [index |-> 0, len |-> 0]
  ELSE IF MatchAt(s, from) > 0 THEN [index |-> from, len |-> MatchAt(s, from)]
  ELSE Exec(s, from + 1)

\* s.slice(from - 1, to): the characters at positions from .. to
Slice(s, from, to) == SubSeq(s, from, to)

RECURSIVE Pow10(_)
Pow10(n) == IF n = 0 THEN 1 ELSE 10 * Pow10(n - 1)

\* the value of a string of decimal digits, 0 for the empty string
RECURSIVE DigitsValue(_)
DigitsValue(s) ==
  IF Len(s) = 0 THEN 0
  ELSE 10 * DigitsValue(SubSeq(s, 1, Len(s) - 1))
       + (CHOOSE n \in 0 .. 9 : HexDigits[n + 1] = s[Len(s)])

\* +s of a string s that is one match of reA
ToNumber(s) ==
  LET sg == IF CharAt(s, 1) \in {"-", "+"} THEN 1 ELSE 0
      d == DigitRun(s, sg + 1)
      dot == IF CharAt(s, sg + d + 1) = "." THEN 1 ELSE 0
      fr == IF dot = 1 THEN DigitRun(s, sg + d + 2) ELSE 0
      m == sg + d + dot + fr
      esg == IF CharAt(s, m + 2) \in {"-", "+"} THEN 1 ELSE 0
      e == IF m < Len(s) THEN DigitsValue(Slice(s, m + 2 + esg, Len(s))) ELSE 0
      mant == DigitsValue(Slice(s, sg + 1, sg + d)) * Pow10(fr)
              + DigitsValue(Slice(s, sg + d + 2, sg + d + 1 + fr))
      signed == IF CharAt(s, 1) = "-" THEN 0 - mant ELSE mant
  IN IF CharAt(s, m + 2) = "-"
       THEN Ratio(signed, Pow10(fr) * Pow10(e))
       ELSE Ratio(signed * Pow10(e), Pow10(fr))

\* the decimal digits of a natural number
RECURSIVE NatToString(_)
NatToString(n) ==
  IF n < 10 THEN <<HexDigits[n + 1]>>
  ELSE NatToString(n \div 10) \o <<HexDigits[(n % 10) + 1]>>

\* the number of decimal places of a fraction with denominator den (a
\* divisor of a power of ten)
RECURSIVE Places(_, _)
Places(den, k) ==
  IF Pow10(k) % den = 0 \/ k >= 6 THEN k ELSE Places(den, k + 1)

\* n written with k digits, zeros in front
RECURSIVE Padded(_, _)
Padded(n, k) ==
  IF k = 0 THEN << >>
  ELSE Padded(n \div 10, k - 1) \o <<HexDigits[(n % 10) + 1]>>

\* v + "" of a number v: the sign, the integer part and, unless they are all
\* zero, the decimal places
NumberToString(v) ==
  IF v.k # "number" THEN <<"N", "a", "N">>
  ELSE LET k == Places(v.den, 0)
           n == (Abs(v.num) * Pow10(k)) \div v.den
       IN (IF v.num < 0 THEN <<"-">> ELSE << >>)
          \o NatToString(n \div Pow10(k))
          \o (IF k = 0 THEN << >> ELSE <<".">> \o Padded(n % Pow10(k), k))

\* An interpolator is the closure the factory returns: kind names the
\* factory, x holds the captured linear parts [a, b] (a the start, b the
\* difference), c is the result container of the closure.
\* Linear without the subtraction b -= a
LinearNoDifference(a, b) == [a |-> a, b |-> b]

Linear(a, b) == [a |-> a, b |-> Minus(b, a)]

\* a + b * t of a captured linear part
LinearAt(l, t) == Sum(l.a, Times(l.b, t))

\* interpolateNumber(a, b)
interpolateNumber(a, b) ==
  [kind |-> "number", x |-> <<Linear(a, b)>>, c |-> << >>]

\* interpolate(a, b) for numbers a and b: the default entry of interpolators
\* answers interpolateNumber(a, b)
interpolate(a, b) == Linear(a, b)

\* interpolateRgb(a, b)
interpolateRgb(a, b) ==
  [kind |-> "rgb",
   x |-> <<Linear(rgb(a).r, rgb(b).r), Linear(rgb(a).g, rgb(b).g),
           Linear(rgb(a).b, rgb(b).b)>>,
   c |-> << >>]

\* the hole of an array at an index never assigned
Hole == [k |-> "undefined", num |-> 0, den |-> 1]

\* interpolateArray without the copy of the rest of the longer array
interpolateArrayTruncated(a, b) ==
  LET n0 == IF Len(a) < Len(b) THEN Len(a) ELSE Len(b)
  IN [kind |-> "array",
      x |-> [i \in 1 .. n0 |-> interpolate(a[i], b[i])],
      c |-> [i \in 1 .. n0 |-> Hole]]

\* interpolateArray(a, b): the common prefix is interpolated, the rest of the
\* longer array is copied into c
interpolateArray(a, b) ==
  LET na == Len(a)
      nb == Len(b)
      n0 == IF na < nb THEN na ELSE nb
  IN [kind |-> "array",
      x |-> [i \in 1 .. n0 |-> interpolate(a[i], b[i])],
      c |-> [i \in 1 .. (IF na < nb THEN nb ELSE na) |->
               IF i <= n0 THEN Hole ELSE IF na > nb THEN a[i] ELSE b[i]]]

\* interpolateObject(a, b): the keys of both are interpolated, the others are
\* copied into c
interpolateObject(a, b) ==
  [kind |-> "object",
   x |-> [p \in DOMAIN a \cap DOMAIN b |-> interpolate(a[p], b[p])],
   c |-> [p \in (DOMAIN a \ DOMAIN b) \cup (DOMAIN b \ DOMAIN a) |->
            IF p \in DOMAIN a THEN a[p] ELSE b[p]]]

\* The entries of the array s of interpolateString: a string constant, the
\* placeholder null, or the number a call has put in the placeholder's place.
TextPart(v) == [k |-> "string", v |-> v, n |-> FracNaN]
NullPart == [k |-> "null", v |-> << >>, n |-> FracNaN]
NumberPart(n) == [k |-> "number", v |-> << >>, n |-> n]

\* if (s[i]) s[i] += v; else s[++i] = v;  with i the last index of s
Coalesce(s, v) ==
  IF Len(s) > 0 /\ s[Len(s)].k = "string"
    THEN [s EXCEPT ![Len(s)] = TextPart(@.v \o v)]
    ELSE Append(s, TextPart(v))

\* the text between the scan index bi of b and the match at index, if any
Preceding(s, b, bi, index) ==
  IF index > bi THEN Coalesce(s, Slice(b, bi, index - 1)) ELSE s

\* one pair of numbers am, bm: equal texts are a constant, different ones a
\* placeholder and a number interpolator
Paired(r, am, bm) ==
  IF am = bm
    THEN [s |-> Coalesce(r.s, bm), q |-> r.q]
    ELSE [s |-> Append(r.s, NullPart),
          q |-> Append(r.q, [i |-> Len(r.s) + 1,
                             a |-> Linear(ToNumber(am), ToNumber(bm)).a,
                             b |-> Linear(ToNumber(am), ToNumber(bm)).b])]

\* the text of the match m of string s
Matched(s, m) == Slice(s, m.index, m.index + m.len - 1)

\* the while loop of interpolateString: ai and bi are the scan positions of
\* reA in a and of reB in b; the result holds s, q and the final bi
RECURSIVE ScanPairs(_, _, _, _, _)
ScanNext(a, b, am, bm, r) ==
  IF am.index = 0 \/ bm.index = 0 THEN r
  ELSE ScanPairs(a, b, am.index + am.len, bm.index + bm.len,
         Paired([s |-> Preceding(r.s, b, r.bi, bm.index), q |-> r.q],
                Matched(a, am), Matched(b, bm)))

ScanPairs(a, b, ai, bi, r) ==
  ScanNext(a, b, Exec(a, ai), Exec(b, bi), [s |-> r.s, q |-> r.q, bi |-> bi])

\* Remains that drops the remains of b
RemainsDropped(b, r) == [s |-> r.s, q |-> r.q]

\* the remains of b are added
Remains(b, r) ==
  IF r.bi <= Len(b) THEN [s |-> Coalesce(r.s, Slice(b, r.bi, Len(b))), q |-> r.q]
  ELSE [s |-> r.s, q |-> r.q]

\* the interpolator made of s and q: interpolate0(b) or interpolate1(q[0].x)
\* when s has fewer than two entries
Joining(b, r) ==
  IF Len(r.s) < 2
    THEN IF Len(r.q) > 0
           THEN [kind |-> "string1", x |-> r.q, c |-> r.s]
           ELSE [kind |-> "string0", x |-> r.q, c |-> <<TextPart(b)>>]
    ELSE [kind |-> "string", x |-> r.q, c |-> r.s]

\* interpolateString(a, b)
interpolateString(a, b) ==
  Joining(b, Remains(b, ScanPairs(a, b, 1, 1, [s |-> << >>, q |-> << >>])))

\* s with the placeholders filled by the number interpolators at t
RECURSIVE Filled(_, _, _, _)
Filled(s, q, i, t) ==
  IF i > Len(q) THEN s
  ELSE Filled([s EXCEPT ![q[i].i] = NumberPart(LinearAt(q[i], t))], q, i + 1, t)

\* s.join("")
RECURSIVE Join(_)
Join(s) ==
  IF Len(s) = 0 THEN << >>
  ELSE (IF s[1].k = "string" THEN s[1].v
        ELSE IF s[1].k = "number" THEN NumberToString(s[1].n)
        ELSE << >>) \o Join(Tail(s))

\* ------------------------------------------------------ interpolateTransform
\* A decomposed transform (the object new Transform(m) makes) is a record of
\* translate <<x, y>>, rotate and skew in degrees, and scale <<kx, ky>>.
Decomposed(translate, rotate) ==
  [translate |-> translate, rotate |-> rotate, skew |-> Whole(0),
   scale |-> <<Whole(1), Whole(1)>>]

\* x > y for numbers
Greater(x, y) == x.num * y.den > y.num * x.den

\* the rotations left as they are
ShortestPathNone(ra, rb) == [ra |-> ra, rb |-> rb]

\* if (ra - rb > 180) rb += 360; else if (rb - ra > 180) ra += 360;
ShortestPath(ra, rb) ==
  IF Greater(Minus(ra, rb), Whole(180))
    THEN [ra |-> ra, rb |-> Sum(rb, Whole(360))]
  ELSE IF Greater(Minus(rb, ra), Whole(180))
    THEN [ra |-> Sum(ra, Whole(360)), rb |-> rb]
  ELSE [ra |-> ra, rb |-> rb]

\* s.pop() + text, pushed back
Extended(r, text) ==
  SubSeq(r.s, 1, Len(r.s) - 1) \o <<TextPart(r.s[Len(r.s)].v \o text)>>

\* one number interpolator of q, for the placeholder at index i of s
Entry(i, a, b) == [i |-> i, a |-> Linear(a, b).a, b |-> Linear(a, b).b]

\* the translate section
Translated(ta, tb) ==
  IF ta[1] # tb[1] \/ ta[2] # tb[2]
    THEN [s |-> <<TextPart(<<"t", "r", "a", "n", "s", "l", "a", "t", "e", "(">>),
                  NullPart, TextPart(<<",">>), NullPart, TextPart(<<")">>)>>,
          q |-> <<Entry(2, ta[1], tb[1]), Entry(4, ta[2], tb[2])>>]
  ELSE IF tb[1] # Whole(0) \/ tb[2] # Whole(0)
    THEN [s |-> <<TextPart(<<"t", "r", "a", "n", "s", "l", "a", "t", "e", "(">>
                           \o NumberToString(tb[1]) \o <<",">>
                           \o NumberToString(tb[2]) \o <<")">>)>>,
          q |-> << >>]
  ELSE [s |-> <<TextPart(<< >>)>>, q |-> << >>]

\* the rotate section, with the rotations p.ra and p.rb the shortest path
\* leaves
Rotating(r, p) ==
  [s |-> Extended(r, <<"r", "o", "t", "a", "t", "e", "(">>)
         \o <<NullPart, TextPart(<<")">>)>>,
   q |-> Append(r.q, Entry(Len(r.s) + 1, p.ra, p.rb))]

Rotated(r, ra, rb) ==
  IF ra # rb THEN Rotating(r, ShortestPath(ra, rb))
  ELSE IF rb # Whole(0)
    THEN [s |-> Extended(r, <<"r", "o", "t", "a", "t", "e", "(">>
                            \o NumberToString(rb) \o <<")">>),
          q |-> r.q]
  ELSE r

\* the skewX section
Skewed(r, wa, wb) ==
  IF wa # wb
    THEN [s |-> Extended(r, <<"s", "k", "e", "w", "X", "(">>)
                \o <<NullPart, TextPart(<<")">>)>>,
          q |-> Append(r.q, Entry(Len(r.s) + 1, wa, wb))]
  ELSE IF wb # Whole(0)
    THEN [s |-> Extended(r, <<"s", "k", "e", "w", "X", "(">>
                            \o NumberToString(wb) \o <<")">>),
          q |-> r.q]
  ELSE r

\* the scale section
Scaled(r, ka, kb) ==
  IF ka[1] # kb[1] \/ ka[2] # kb[2]
    THEN [s |-> Extended(r, <<"s", "c", "a", "l", "e", "(">>)
                \o <<NullPart, TextPart(<<",">>), NullPart, TextPart(<<")">>)>>,
          q |-> r.q \o <<Entry(Len(r.s) + 1, ka[1], kb[1]),
                         Entry(Len(r.s) + 3, ka[2], kb[2])>>]
  ELSE IF kb[1] # Whole(1) \/ kb[2] # Whole(1)
    THEN [s |-> Extended(r, <<"s", "c", "a", "l", "e", "(">>
                            \o NumberToString(kb[1]) \o <<",">>
                            \o NumberToString(kb[2]) \o <<")">>),
          q |-> r.q]
  ELSE r

\* the function interpolateTransform returns, of s and q
Transforming(r) == [kind |-> "string", x |-> r.q, c |-> r.s]

\* interpolateTransform(a, b) of the decomposed transforms A and B
interpolateTransform(A, B) ==
  Transforming(
    Scaled(Skewed(Rotated(Translated(A.translate, B.translate),
                          A.rotate, B.rotate),
                  A.skew, B.skew),
           A.scale, B.scale))

\* ------------------------------------------------------- the detector list
\* The list interpolators holds detectors; a detector is given a and b and
\* answers an interpolator or a falsy value.  The default detector (id 0)
\* always answers; a detector a caller has pushed (id > 0) answers its own
\* interpolator for the values whose type is in on, and null for the others.
\* The pushed detectors of the model decline numbers, so that interpolate
\* inside interpolateArray and interpolateObject reaches the default one.
Types == {"number", "string", "array", "object"}

DefaultDetector == [id |-> 0, on |-> Types]

\* the interpolator of the pushed detector id, and null
Custom(id) == [kind |-> "custom", x |-> << >>, c |-> <<id>>]
Falsy == [kind |-> "null", x |-> << >>, c |-> << >>]

\* interpolators[0](a, b), b being of the type named
DefaultChain(type, a, b) ==
  IF type = "string"
    THEN IF color(b).ok THEN interpolateRgb(a, b) ELSE interpolateString(a, b)
  ELSE IF type = "array" THEN interpolateArray(a, b)
  ELSE IF type = "object" THEN interpolateObject(a, b)
  ELSE interpolateNumber(a, b)

\* interpolators[i](a, b)
Detect(d, type, a, b) ==
  IF d.id = 0 THEN DefaultChain(type, a, b)
  ELSE IF type \in d.on THEN Custom(d.id)
  ELSE Falsy

\* the list consulted from the first detector on
InterpolatedFirstWins(list, type, a, b) == Detect(list[1], type, a, b)

\* while (--i >= 0 && !(f = interpolators[i](a, b))); return f;
\* with i counting from 1: the detectors i, i - 1, .., 1 are consulted
RECURSIVE Consult(_, _, _, _, _)
Consult(list, i, type, a, b) ==
  IF i < 1 THEN Falsy
  ELSE IF Detect(list[i], type, a, b).kind # "null"
    THEN Detect(list[i], type, a, b)
  ELSE Consult(list, i - 1, type, a, b)

\* interpolate(a, b) with the list as it is, b being of the type named
Interpolated(list, type, a, b) == Consult(list, Len(list), type, a, b)

\* what a call returns when it returns the container c itself
TheContainer == "c"

\* f(t): the interpolator after the call, and what the call returns
CallInterpolator(f, t) ==
  IF f.kind = "number"
    THEN [f |-> f, ret |-> LinearAt(f.x[1], t)]
  ELSE IF f.kind = "rgb"
    THEN [f |-> f,
          ret |-> format(MathRound(LinearAt(f.x[1], t)),
                         MathRound(LinearAt(f.x[2], t)),
                         MathRound(LinearAt(f.x[3], t)))]
  ELSE IF f.kind = "array"
    THEN [f |-> [f EXCEPT !.c = [i \in DOMAIN f.c |->
                   IF i \in DOMAIN f.x THEN LinearAt(f.x[i], t) ELSE f.c[i]]],
          ret |-> TheContainer]
  ELSE IF f.kind = "string0"
    THEN [f |-> f, ret |-> f.c[1].v]
  ELSE IF f.kind = "string1"
    THEN [f |-> f, ret |-> NumberToString(LinearAt(f.x[1], t))]
  ELSE IF f.kind = "string"
    THEN [f |-> [f EXCEPT !.c = Filled(f.c, f.x, 1, t)],
          ret |-> Join(Filled(f.c, f.x, 1, t))]
  ELSE IF f.kind = "custom"
    THEN [f |-> f, ret |-> f.c]
  ELSE [f |-> [f EXCEPT !.c = [p \in DOMAIN f.c \cup DOMAIN f.x |->
                 IF p \in DOMAIN f.x THEN LinearAt(f.x[p], t) ELSE f.c[p]]],
        ret |-> TheContainer]

\* the value a caller holds who was handed ret by interpolator f
Held(f, ret) == IF f.kind \in {"array", "object"} THEN f.c ELSE ret

\* ---------------------------------------------------------------- the state
VARIABLES
  tw,        \* the Tween objects
  _tweens,   \* the registry
  _time,     \* the scheduler's current time
  emitted,   \* the events emitted by the last operation, in order
  updated,   \* how often the last operation invoked update of each Tween
  called,    \* the handlers the last operation invoked, in order
  offed,     \* the handlers handed to off(name, fn) and not registered since
  onned,     \* the handlers registered with on() and not handed to off() since
  fired,     \* how often each event of each Tween was emitted
  laps,      \* how many lap ends each Tween has had
  halt,      \* "stopped" / "paused" / "none" per Tween
  made,      \* the target object of each Tween as it was at construction
  given,     \* the property map last handed to to() of each Tween
  lastOp,    \* the last operation: its name, its Tween (0: none), its result
  _autoPlay, \* whether add() starts the animation-frame loop
  isStarted, \* whether the loop counts as started
  pending,   \* the number of frame callbacks pending
  tickLive,  \* whether the callback with handle _tick is pending
  thrown,    \* whether the last operation ended in an exception
  hung,      \* whether the last operation is still running, for ever
  ip,        \* the interpolator under test, its endpoints and its calls
  interpolators  \* the list of detectors

tweenVars == <<tw, _tweens, _time, emitted, updated, called, offed, onned, fired,
               laps, halt, made, given, lastOp, _autoPlay, isStarted, pending,
               tickLive, thrown, hung>>

vars == <<tweenVars, ip, interpolators>>

\* the state the operators work on, with an empty event record
St ==
  [tw |-> tw, reg |-> _tweens, time |-> _time, emitted |-> << >>,
   updated |-> [id \in DOMAIN tw |-> 0],
   called |-> << >>, offed |-> offed, onned |-> onned,
   fired |-> fired, laps |-> laps, halt |-> halt,
   given |-> given,
   autoPlay |-> _autoPlay, isStarted |-> isStarted, pending |-> pending,
   tickLive |-> tickLive, depth |-> 0, thrown |-> FALSE,
   hung |-> FALSE, seen |-> {}]

\* the operation recorded as last ends in state s
CommitAs(s, last) ==
  /\ ~ hung
  /\ Len(s.reg) <= MaxReg
  /\ tw' = s.tw
  /\ _tweens' = s.reg
  /\ _time' = s.time
  /\ emitted' = s.emitted
  /\ updated' = s.updated
  /\ called' = s.called
  /\ offed' = s.offed
  /\ onned' = s.onned
  /\ fired' = s.fired
  /\ laps' = s.laps
  /\ halt' = s.halt
  /\ given' = s.given
  /\ made' = made
  /\ _autoPlay' = s.autoPlay
  /\ isStarted' = s.isStarted
  /\ pending' = s.pending
  /\ tickLive' = s.tickLive
  /\ thrown' = s.thrown
  /\ hung' = s.hung
  /\ lastOp' = last
  /\ ip' = ip
  /\ interpolators' = interpolators

\* the operation named op on Tween id ends in state s with result r
Commit(s, op, id, r) == CommitAs(s, [op |-> op, id |-> id, ret |-> r])

InRegistry(id) == \E i \in 1 .. Len(_tweens) : _tweens[i] = id

\* getAll() after construction of the Tweens: nothing registered, time 0
InitTweens ==
  /\ made \in [Tweens -> Objects]
  /\ made[2] = [x |-> Num(0), y |-> Num(16)]
  /\ tw = [id \in Tweens |-> NewTween(made[id])]
  /\ _tweens = << >>
  /\ _time = 0
  /\ emitted = << >>
  /\ updated = [id \in Tweens |-> 0]
  /\ called = << >>
  /\ offed = {}
  /\ onned = {}
  /\ fired = [id \in Tweens |-> [e \in Counted |-> 0]]
  /\ laps = [id \in Tweens |-> 0]
  /\ halt = [id \in Tweens |-> "none"]
  /\ given = [id \in Tweens |-> EmptyObject]
  /\ lastOp = [op |-> "new", id |-> 0, ret |-> FALSE]
  /\ _autoPlay = FALSE
  /\ isStarted = FALSE
  /\ pending = 0
  /\ tickLive = FALSE
  /\ thrown = FALSE
  /\ hung = FALSE

\* no interpolator has been made
NoInterpolator ==
  [kind |-> "none", a |-> << >>, b |-> << >>,
   f |-> [kind |-> "none", x |-> << >>, c |-> << >>], calls |-> << >>]

Init ==
  InitTweens /\ ip = NoInterpolator /\ interpolators = <<DefaultDetector>>

\* ------------------------------------------------- the builder (configuration)
\* The builder calls are made before anything is started or ticked, as in
\* new Tween(o).to(..).repeat(..).start().
Fresh(id) ==
  /\ ~ tw[id]._isPlaying
  /\ ~ tw[id]._onStartCallbackFired
  /\ _tweens = << >>
  /\ _time = 0

Configure(id, t) ==
  /\ Fresh(id)
  /\ Commit([St EXCEPT !.tw[id] = t], "configure", id, FALSE)

\* to(properties, duration); to(properties) is to(properties, 1000)
To(id, properties, duration) ==
  /\ Fresh(id)
  /\ Commit([St EXCEPT !.tw[id]._valuesEnd = properties,
                       !.tw[id]._duration = duration,
                       !.given[id] = properties], "configure", id, FALSE)

Duration(id, amount) ==
  /\ Configure(id, [tw[id] EXCEPT !._duration = amount])

Delay(id, amount) ==
  /\ Configure(id, [tw[id] EXCEPT !._delayTime = amount])

Repeat(id, times) ==
  /\ Configure(id, [tw[id] EXCEPT !._repeat = times, !._r = times])

RepeatDelay(id, amount) ==
  /\ Configure(id, [tw[id] EXCEPT !._repeatDelayTime = amount])

ReverseDelay(id, amount) ==
  /\ Configure(id, [tw[id] EXCEPT !._reverseDelayTime = amount])

Yoyo(id, state) ==
  /\ Configure(id, [tw[id] EXCEPT !._yoyo = state])

Easing(id, fn) ==
  /\ Configure(id, [tw[id] EXCEPT !._easingFunction = fn])

\* interpolation(fn)
Interpolation(id, fn) ==
  /\ Configure(id, [tw[id] EXCEPT !._interpolationFunction = fn])

\* on(name, fn), here for an event that has no handler yet
On(id, name, fn) ==
  /\ Fresh(id)
  /\ name \notin DOMAIN tw[id]._events
  /\ CommitAs([St EXCEPT !.tw[id] = TweenOn(@, name, fn),
                         !.onned = @ \cup {<<id, name, fn>>}],
              [op |-> "on", id |-> id, ret |-> FALSE, kind |-> fn.k])

\* once(name, fn), here for an event that has no handler yet
Once(id, name, fn) ==
  /\ Fresh(id)
  /\ name \notin DOMAIN tw[id]._events
  /\ CommitAs([St EXCEPT !.tw[id] = TweenOnce(@, name, fn)],
              [op |-> "once", id |-> id, ret |-> FALSE, kind |-> fn.k])

\* on(name, fn) for an event that has handlers already
AlsoOn(id, name, fn) ==
  /\ Fresh(id)
  /\ name \in DOMAIN tw[id]._events
  /\ Len(tw[id]._events[name]) < MaxListeners
  /\ CommitAs([St EXCEPT !.tw[id] = TweenOn(@, name, fn),
                         !.offed = @ \ {<<id, name, fn>>},
                         !.onned = @ \cup {<<id, name, fn>>}],
              [op |-> "on", id |-> id, ret |-> FALSE, kind |-> fn.k])

\* once(name, fn) for an event that has handlers already
AlsoOnce(id, name, fn) ==
  /\ Fresh(id)
  /\ name \in DOMAIN tw[id]._events
  /\ Len(tw[id]._events[name]) < MaxListeners
  /\ CommitAs([St EXCEPT !.tw[id] = TweenOnce(@, name, fn)],
              [op |-> "once", id |-> id, ret |-> FALSE, kind |-> fn.k])

\* off(name, fn) for a handler that on(name, fn) has registered
Off(id, name, fn) ==
  /\ \E k \in 1 .. Len(Listeners(tw[id], name)) : tw[id]._events[name][k] = fn
  /\ CommitAs([St EXCEPT !.tw[id] = TweenOff(@, name, fn),
                         !.offed = @ \cup {<<id, name, fn>>},
                         !.onned = @ \ {<<id, name, fn>>}],
              [op |-> "off", id |-> id, ret |-> FALSE, kind |-> fn.k])

\* chain(...tweens); chains are kept acyclic (a cycle is outside the contract)
Chain(id, args) ==
  /\ \A i \in 1 .. Len(args) : args[i] > id
  /\ Configure(id, [tw[id] EXCEPT !._chainedTweens = args])

\* ------------------------------------------------------------ the operations
\* tween.start(time)
Start(id, time) ==
  /\ Commit(TweenStart(St, id, time), "start", id, FALSE)

\* the first tween.start(time) of a Tween
StartOnce(id, time) ==
  /\ ~ tw[id]._isPlaying
  /\ Start(id, time)

Pause(id) ==
  /\ Commit(TweenPause(St, id), "pause", id, FALSE)

Play(id) ==
  /\ Commit(TweenPlay(St, id), "play", id, FALSE)

Stop(id) ==
  /\ Commit(TweenStop(St, id), "stop", id, FALSE)

\* tween.end()
End(id) ==
  /\ Commit(TweenEnd(St, id), "end", id, FALSE)

Restart(id, noDelay) ==
  /\ Commit(TweenRestart(St, id, noDelay), "restart", id, FALSE)

\* tween.seek(time, keepPlaying)
Seek(id, time, keepPlaying) ==
  /\ CommitAs(TweenSeek(St, id, time, keepPlaying),
              [op |-> "seek", id |-> id, ret |-> FALSE, time |-> time])

\* TWEEN.add(tween)
Add(id) ==
  /\ Commit(CoreAdd(St, id), "add", id, FALSE)

\* TWEEN.remove(tween)
Remove(id) ==
  /\ Commit(CoreRemove(St, id), "remove", id, FALSE)

\* TWEEN.autoPlay(state)
AutoPlay(state) ==
  /\ Commit([St EXCEPT !.autoPlay = state], "autoPlay", 0, FALSE)

\* a pending frame callback runs: autoStart(time), the frame's timestamp; it is
\* the callback with handle _tick or an earlier one
Frame(time) ==
  /\ pending > 0
  /\ time >= _time
  /\ \E isTick \in BOOLEAN :
       /\ isTick => tickLive
       /\ ~ isTick => pending > (IF tickLive THEN 1 ELSE 0)
       /\ Commit(AutoStart([St EXCEPT !.pending = @ - 1,
                                      !.tickLive = IF isTick THEN FALSE ELSE @],
                           time), "frame", 0, FALSE)

\* TWEEN.removeAll()
RemoveAll ==
  /\ Commit(CoreRemoveAll(St), "removeAll", 0, FALSE)

\* TWEEN.update(time, preserve), the driver's clock never running backwards
Update(time, preserve) ==
  /\ time >= _time
  /\ LET r == CoreUpdate(St, time, preserve) IN Commit(r.st, "update", 0, r.ret)

\* ------------------------------------------------------- the specifications
\* Tween 1 is configured freely; Tween 2 keeps its constructor defaults and
\* serves as chained successor and as second entry of the registry.
Studied == {1}

ConfigureRun ==
  \/ \E id \in Studied, p \in EndMaps, d \in Durations : To(id, p, d)
  \/ \E id \in Studied, d \in Durations : Duration(id, d)
  \/ \E id \in Studied, d \in Delays : Delay(id, d)
  \/ \E id \in Studied, n \in Repeats : Repeat(id, n)
  \/ \E id \in Studied, b \in BOOLEAN : Yoyo(id, b)
  \/ \E id \in Studied, f \in EasingNames : Easing(id, f)
  \/ \E id \in Studied : Chain(id, <<2>>)

\* a Tween is configured, started once and driven by TWEEN.update(time)
NextRun ==
  \/ ConfigureRun
  \/ \E id \in Tweens, time \in {0, _time} : StartOnce(id, time)
  \/ \E time \in TimeGrid : Update(time, FALSE)

SpecRun == Init /\ [][NextRun]_vars

\* Tween 1 is configured with to(properties), repeat() and chain(), then any operation
\* of the Tween and scheduler surface is called on it in any order, the driver
\* ticking every 500 ms; Tween 2 is started as its chained successor.
CoarseGrid == {500 * i : i \in 0 .. (MaxTick \div 2)}

Next ==
  \/ \E id \in Studied, p \in EndMaps : To(id, p, 1000)
  \/ \E id \in Studied, n \in {0, 1} : Repeat(id, n)
  \/ \E id \in Studied : Chain(id, <<2>>)
  \/ \E id \in Studied : Start(id, _time)
  \/ \E id \in Studied : Pause(id)
  \/ \E id \in Studied : Play(id)
  \/ \E id \in Tweens : Stop(id)
  \/ \E id \in Studied, noDelay \in BOOLEAN : Restart(id, noDelay)
  \/ \E id \in Studied : Add(id)
  \/ \E id \in Studied : Remove(id)
  \/ RemoveAll
  \/ \E time \in CoarseGrid, preserve \in BOOLEAN : Update(time, preserve)

Spec == Init /\ [][Next]_vars

\* Tween 1 is given an end map, a duration, a delay and Tween 2 as its chained
\* successor, Tween 2 a delay of its own; the Tweens are started once (Tween 2
\* by the caller or by the chain) and driven by TWEEN.update(time).
NextChain ==
  \/ \E p \in EndMaps, d \in Durations : To(1, p, d)
  \/ \E id \in Tweens, d \in Delays : Delay(id, d)
  \/ Chain(1, <<2>>)
  \/ \E id \in Tweens, time \in {0, _time} : StartOnce(id, time)
  \/ \E time \in TimeGrid : Update(time, FALSE)

SpecChain == Init /\ [][NextChain]_vars

\* Tween 1 is given an end map and a duration, started once, moved with
\* seek(time, keepPlaying), resumed with play() and driven by TWEEN.update(time).
SeekTimes == {-250, 0, 250, 750}

NextSeek ==
  \/ \E p \in EndMaps, d \in Durations : To(1, p, d)
  \/ \E time \in {0, _time} : StartOnce(1, time)
  \/ \E time \in SeekTimes, keepPlaying \in BOOLEAN : Seek(1, time, keepPlaying)
  \/ Play(1)
  \/ \E time \in TimeGrid : Update(time, FALSE)

SpecSeek == Init /\ [][NextSeek]_vars

\* Tween 1 is given an end map, a duration and Tween 2 as its chained
\* successor; autoPlay is switched, the Tweens are started once, the registry
\* is emptied with removeAll(), and the only driver is the animation-frame loop.
NextAuto ==
  \/ \E p \in EndMaps, d \in Durations : To(1, p, d)
  \/ Chain(1, <<2>>)
  \/ \E state \in BOOLEAN : AutoPlay(state)
  \/ \E id \in Tweens, time \in {0, _time} : StartOnce(id, time)
  \/ RemoveAll
  \/ \E time \in TimeGrid : Frame(time)

SpecAuto == Init /\ [][NextAuto]_vars

\* The frame loop with a listener: Tween 1 is given a handler for 'complete'
\* that starts a Tween again; autoPlay is switched on, the Tweens are started
\* once by the caller and the pending frames run.
Restarting == {Fn("start", id) : id \in Tweens}

NextLoop ==
  \/ AutoPlay(TRUE)
  \/ \E fn \in Restarting : On(1, "complete", fn)
  \/ \E id \in Tweens, time \in {0, _time} : StartOnce(id, time)
  \/ RemoveAll
  \/ \E time \in TimeGrid : Frame(time)

SpecLoop == Init /\ [][NextLoop]_vars

\* Tween 1 is given an end map and a positive duration, started once, jumped
\* to its end with end() and driven by TWEEN.update(time).
NextJump ==
  \/ \E p \in EndMaps, d \in Durations \ {0} : To(1, p, d)
  \/ \E d \in Delays : Delay(1, d)
  \/ \E time \in {0, _time} : StartOnce(1, time)
  \/ tw[1]._isPlaying /\ End(1)
  \/ \E time \in TimeGrid : Update(time, FALSE)

SpecJump == Init /\ [][NextJump]_vars

\* Tween 1 is given up to MaxListeners handlers for 'update' with on() and
\* once(), each pausing or stopping Tween 2; handlers are taken
\* off with off(name, fn), the Tweens are started once and driven by
\* TWEEN.update(time).
OffEvents == {"update"}
Removable == {Fn("pause", 2), Fn("stop", 2)}

NextOff ==
  \/ \E name \in OffEvents, fn \in Removable : On(1, name, fn)
  \/ \E name \in OffEvents, fn \in Removable : AlsoOn(1, name, fn)
  \/ \E name \in OffEvents, fn \in Removable : Once(1, name, fn)
  \/ \E name \in OffEvents, fn \in Removable : AlsoOnce(1, name, fn)
  \/ \E name \in OffEvents, fn \in Removable : Off(1, name, fn)
  \/ \E id \in Tweens : StartOnce(id, _time)
  \/ \E time \in CoarseGrid : Update(time, FALSE)

SpecOff == Init /\ [][NextOff]_vars

\* Tween 1 is given the array [0, 16] or a number as end value of x, a
\* duration and, or not, Interpolation.Linear as interpolation function; it is
\* started once and driven by TWEEN.update(time).
NextArray ==
  \/ \E v \in {ArrayTo(16), Num(16)}, d \in Durations : To(1, [x |-> v], d)
  \/ Interpolation(1, InterpolationTable("Linear"))
  \/ \E time \in {0, _time} : StartOnce(1, time)
  \/ \E time \in TimeGrid : Update(time, FALSE)

SpecArray == Init /\ [][NextArray]_vars

\* Tween 1 is given an end map, a duration of 1000 ms and any function of the
\* Easing table; it is started at 0 and the driver ticks at 0 and at 1000 ms,
\* that is, at elapsed = 0 and at elapsed = 1.
EasingTableNames ==
  {"Linear.None",
   "Quadratic.In", "Quadratic.Out", "Quadratic.InOut",
   "Cubic.In", "Cubic.Out", "Cubic.InOut",
   "Quartic.In", "Quartic.Out", "Quartic.InOut",
   "Quintic.In", "Quintic.Out", "Quintic.InOut",
   "Sinusoidal.In", "Sinusoidal.Out", "Sinusoidal.InOut",
   "Exponential.In", "Exponential.Out", "Exponential.InOut",
   "Circular.In", "Circular.Out", "Circular.InOut",
   "Elastic.In", "Elastic.Out", "Elastic.InOut",
   "Back.In", "Back.Out", "Back.InOut",
   "Bounce.In", "Bounce.Out", "Bounce.InOut"}

NextEase ==
  \/ \E p \in EndMaps : To(1, p, 1000)
  \/ \E f \in EasingTableNames : Easing(1, f)
  \/ StartOnce(1, 0)
  \/ \E time \in {0, 1000} : Update(time, FALSE)

SpecEase == Init /\ [][NextEase]_vars

\* Three Tweens linked with chain(): Tween 1 to Tween 2 and Tween 2 to
\* Tween 3; each is started by the caller or by the chain and
\* stopped in any order, and the driver ticks once, at 1000 ms.
Linked == {1, 2, 3}

InitStop ==
  /\ made = [id \in Linked |-> [x |-> Num(0), y |-> Num(16)]]
  /\ tw = [id \in Linked |-> NewTween(made[id])]
  /\ _tweens = << >>
  /\ _time = 0
  /\ emitted = << >>
  /\ updated = [id \in Linked |-> 0]
  /\ called = << >>
  /\ offed = {}
  /\ onned = {}
  /\ fired = [id \in Linked |-> [e \in Counted |-> 0]]
  /\ laps = [id \in Linked |-> 0]
  /\ halt = [id \in Linked |-> "none"]
  /\ given = [id \in Linked |-> EmptyObject]
  /\ lastOp = [op |-> "new", id |-> 0, ret |-> FALSE]
  /\ _autoPlay = FALSE
  /\ isStarted = FALSE
  /\ pending = 0
  /\ tickLive = FALSE
  /\ thrown = FALSE
  /\ hung = FALSE
  /\ ip = NoInterpolator
  /\ interpolators = <<DefaultDetector>>

NextStop ==
  \/ Chain(1, <<2>>)
  \/ Chain(2, <<3>>)
  \/ \E id \in Linked : StartOnce(id, _time)
  \/ \E id \in Linked : Stop(id)
  \/ _time = 0 /\ Update(1000, FALSE)

SpecStop == InitStop /\ [][NextStop]_vars

\* Tween 1 is given a delay and, for the events fired during a scheduler update,
\* handlers that call start(), stop() or pause() on Tween 1 or on Tween 2; the
\* Tweens are started once and driven by TWEEN.update(time).
ListenEvents == {"start", "update", "complete"}
Handlers == {Fn(call, id) : call \in {"start", "stop", "pause"}, id \in Tweens}

NextListen ==
  \/ \E name \in ListenEvents, fn \in Handlers : On(1, name, fn)
  \/ \E d \in Delays : Delay(1, d)
  \/ \E id \in Tweens : StartOnce(id, _time)
  \/ \E time \in CoarseGrid : Update(time, FALSE)

SpecListen == Init /\ [][NextListen]_vars

\* Tween 1 is given handlers with on() and once(), functions and a value that
\* is not a function; it is started once and driven by TWEEN.update(time).
Registered == {Fn("stop", 1), Fn("pause", 1), NotAFunction}

NextOn ==
  \/ \E name \in ListenEvents, fn \in Registered : On(1, name, fn)
  \/ \E name \in ListenEvents, fn \in Registered : Once(1, name, fn)
  \/ \E id \in Tweens : StartOnce(id, _time)
  \/ \E time \in CoarseGrid : Update(time, FALSE)

SpecOn == Init /\ [][NextOn]_vars

\* Tween 1 is given an end value of any kind for x and a duration; it is
\* started once and driven by TWEEN.update(time).
EndValues == {Num(16), True, Null, AnObject, Str, NumStr(16), RelStr(16)}

NextEnd ==
  \/ \E v \in EndValues, d \in Durations : To(1, [x |-> v], d)
  \/ \E n \in {0, 1} : Repeat(1, n)
  \/ \E time \in {0, _time} : StartOnce(1, time)
  \/ \E time \in TimeGrid : Update(time, FALSE)

SpecEnd == Init /\ [][NextEnd]_vars

\* --------------------------------------------------------- interpolation
\* One interpolator is made from two endpoints and then called with progress
\* values in any order, the values it returned being kept by the caller.
MaxCalls == 3               \* the calls made on one interpolator

\* the progress values -1, 0, 1/2, 1 and 2
Progress == {Ratio(0 - 1, 1), Whole(0), Ratio(1, 2), Whole(1), Whole(2)}
Numbers == {Whole(0 - 8), Whole(0), Whole(16)}
\* "#000000", "#ffffff", "#f00", "#1080ff" and "abc"
ColorStrings ==
  {<<"#", "0", "0", "0", "0", "0", "0">>, <<"#", "f", "f", "f", "f", "f", "f">>,
   <<"#", "f", "0", "0">>, <<"#", "1", "0", "8", "0", "f", "f">>,
   <<"a", "b", "c">>}
Arrays == {<< >>, <<Whole(0)>>, <<Whole(16)>>, <<Whole(0), Whole(16)>>}
\* "a: 1px", "a: 10px", "10", "1px 5px", "x" and "-.5e1"
Strings ==
  {<<"a", ":", " ", "1", "p", "x">>, <<"a", ":", " ", "1", "0", "p", "x">>,
   <<"1", "0">>, <<"1", "p", "x", " ", "5", "p", "x">>, <<"x">>,
   <<"-", ".", "5", "e", "1">>}
\* rotations by -180, -135, 0, 90, 135 and 180 degrees, at the origin and
\* translated
Rotations ==
  {Whole(0 - 180), Whole(0 - 135), Whole(0), Whole(90), Whole(135), Whole(180)}
Transforms ==
  {Decomposed(<<x, Whole(0)>>, r) : x \in {Whole(0), Whole(16)}, r \in Rotations}
KeyedObjects ==
  {[x |-> Whole(0)], [x |-> Whole(16)], [x |-> Whole(0), y |-> Whole(16)]}

\* the factory of each kind
Factory(kind, a, b) ==
  IF kind = "number" THEN interpolateNumber(a, b)
  ELSE IF kind = "rgb" THEN interpolateRgb(a, b)
  ELSE IF kind = "array" THEN interpolateArray(a, b)
  ELSE IF kind = "string" THEN interpolateString(a, b)
  ELSE IF kind = "transform" THEN interpolateTransform(a, b)
  ELSE interpolateObject(a, b)

Made(kind, a, b) ==
  [kind |-> kind, a |-> a, b |-> b, f |-> Factory(kind, a, b),
   calls |-> << >>]

InitInterpolate ==
  /\ InitTweens
  /\ made[1] = made[2]
  /\ interpolators = <<DefaultDetector>>
  /\ \/ \E a \in Numbers, b \in Numbers : ip = Made("number", a, b)
     \/ \E a \in ColorStrings, b \in ColorStrings : ip = Made("rgb", a, b)
     \/ \E a \in Arrays, b \in Arrays : ip = Made("array", a, b)
     \/ \E a \in Strings, b \in Strings : ip = Made("string", a, b)
     \/ \E a \in Transforms, b \in Transforms : ip = Made("transform", a, b)
     \/ \E a \in KeyedObjects, b \in KeyedObjects : ip = Made("object", a, b)

\* f(t) on the interpolator under test
Call(t) ==
  /\ Len(ip.calls) < MaxCalls
  /\ ip' = [ip EXCEPT !.f = CallInterpolator(ip.f, t).f,
                      !.calls = Append(@, [t |-> t,
                                           ret |-> CallInterpolator(ip.f, t).ret])]
  /\ UNCHANGED <<tweenVars, interpolators>>

NextInterpolate == \E t \in Progress : Call(t)

SpecInterpolate == InitInterpolate /\ [][NextInterpolate]_vars

\* ----------------------------------------------------------------- dispatch
\* Detectors are pushed onto the list and interpolate(a, b) is called.
MaxDetectors == 3           \* the detectors in the list, the default included

\* the detectors a caller pushes
Pushed ==
  {[id |-> n, on |-> on] :
     n \in {1, 2},
     on \in {{"string"}, {"array", "object"}, {"string", "array"}}}

InitDispatch == InitTweens /\ made[1] = made[2] /\ ip = NoInterpolator
                /\ interpolators = <<DefaultDetector>>

\* the state of the Tween engine stays, the operation is recorded as last
Recorded(op) ==
  /\ lastOp' = [op |-> op, id |-> 0, ret |-> FALSE]
  /\ UNCHANGED <<tw, _tweens, _time, emitted, updated, called, offed, onned,
                 fired, laps, halt, made, given, _autoPlay, isStarted, pending,
                 tickLive, thrown, hung>>

\* interpolators.push(d)
Register(d) ==
  /\ Len(interpolators) < MaxDetectors
  /\ interpolators' = Append(interpolators, d)
  /\ ip' = ip
  /\ Recorded("push")

\* interpolate(a, b), b being of the type named
Interpolate(type, a, b) ==
  /\ ip' = [kind |-> type, a |-> a, b |-> b,
            f |-> Interpolated(interpolators, type, a, b), calls |-> << >>]
  /\ interpolators' = interpolators
  /\ Recorded("interpolate")

NextDispatch ==
  \/ \E d \in Pushed : Register(d)
  \/ \E b \in Numbers : Interpolate("number", Whole(0), b)
  \/ \E a \in {<<"#", "f", "0", "0">>, <<"1", "0">>},
        b \in ColorStrings \cup Strings : Interpolate("string", a, b)
  \/ \E b \in Arrays : Interpolate("array", <<Whole(0)>>, b)
  \/ \E b \in KeyedObjects : Interpolate("object", [x |-> Whole(0)], b)

SpecDispatch == InitDispatch /\ [][NextDispatch]_vars

\* ================================================================ properties
Emitted(id, name) == \E i \in 1 .. Len(emitted) : emitted[i] = <<id, name>>

\* the last operation was a scheduler tick
Ticked == lastOp.op = "update"

\* the last operation ended a lap of Tween id
LapEnded(id) ==
  Emitted(id, "repeat") \/ Emitted(id, "reverse") \/ Emitted(id, "complete")

\* Tween id tweens the numeric property x from s to e
TweensX(id) ==
  /\ "x" \in DOMAIN given[id]
  /\ given[id]["x"].k = "number"
  /\ made[id]["x"].k = "number"

\* C1: each Tween occurs at most once in the registry.
\* (Refuted: start() and play() push without looking, remove() removes nothing.)
C1_AtMostOnceInRegistry ==
  \A i, j \in 1 .. Len(_tweens) : i # j => _tweens[i] # _tweens[j]

\* C2: after stop() on a playing Tween, the Tween is not in the registry and a
\* later scheduler update neither advances it nor fires its 'complete', until
\* it is started again.
\* (Refuted: TWEEN.remove leaves the registry as it was.)
C2_StoppedIsUnregistered ==
  \A id \in Tweens :
    halt[id] = "stopped" =>
      /\ ~ InRegistry(id)
      /\ Ticked => ~ Emitted(id, "update") /\ ~ Emitted(id, "complete")

\* C3: between pause() and the next play(), the Tween is not in the registry;
\* scheduler updates in between fire no 'update' or 'complete' for it (and
\* so write nothing to its target: the writes precede the 'update' event).
\* (Refuted: TWEEN.remove leaves the registry as it was.)
C3_PausedIsUnregistered ==
  \A id \in Tweens :
    halt[id] = "paused" =>
      /\ ~ InRegistry(id)
      /\ Ticked => ~ Emitted(id, "update") /\ ~ Emitted(id, "complete")

\* C4: with repeat(n), n >= 1 and finite, the remaining repeat count goes down
\* by one at each lap end, and after n + 1 laps the Tween has fired 'complete'
\* and is out of the registry.
\* (Refuted: the decrement is never stored, the Tween repeats for ever.)
C4_RepeatCountsDown ==
  \A id \in Tweens :
    (tw[id]._r >= 1 /\ laps[id] < MaxLaps) =>
      /\ laps[id] <= tw[id]._r => tw[id]._repeat = tw[id]._r - laps[id]
      /\ laps[id] > tw[id]._r =>
            /\ fired[id]["complete"] = 1
            /\ ~ InRegistry(id)

\* C5: a Tween with repeat 0, started once and driven by scheduler updates
\* with non-decreasing times, fires 'complete' exactly once, on the first tick
\* with time >= startTime + duration; it leaves the registry in that tick and
\* no later tick fires an event for it.
\* (Refuted for duration 0: a tick at time = startTime computes 0 / 0.)
C5_CompletesOnceWhenDue ==
  \A id \in Studied :
    (tw[id]._r = 0 /\ tw[id]._isPlaying) =>
      LET due == _time >= tw[id]._startTime + tw[id]._duration IN
      /\ fired[id]["complete"] <= 1
      /\ fired[id]["complete"] = 1 => due /\ ~ InRegistry(id)
      /\ (Ticked /\ due) => fired[id]["complete"] = 1
      /\ (Ticked /\ ~ Emitted(id, "complete")) =>
            \A i \in 1 .. Len(emitted) : emitted[i][1] # id \/ fired[id]["complete"] = 0

\* C6: Linear easing, duration d > 0, no delay, repeat 0, started at t0, the
\* property x being s at construction and e in the end map: after a scheduler
\* update(t) with t >= t0, x = s + (e - s) * min(t - t0, d) / d.
C6_LinearBlend ==
  \A id \in Tweens :
    ( /\ TweensX(id)
      /\ tw[id]._easingFunction = "Linear.None"
      /\ tw[id]._duration > 0
      /\ tw[id]._delayTime = 0
      /\ tw[id]._r = 0
      /\ tw[id]._isPlaying
      /\ Ticked
      /\ _time >= tw[id]._startTime ) =>
      LET s == made[id]["x"].n
          e == given[id]["x"].n
          d == tw[id]._duration
          t == _time - tw[id]._startTime
          k == IF t > d THEN d ELSE t
          x == tw[id].object["x"]
      IN x.k = "number" /\ x.n * d = s * d + (e - s) * k

\* C6, its case: half way from 0 to 16
C6_Witness ==
  \E id \in Tweens :
    /\ TweensX(id) /\ tw[id]._easingFunction = "Linear.None"
    /\ tw[id]._duration = 500 /\ tw[id]._delayTime = 0 /\ tw[id]._r = 0
    /\ tw[id]._isPlaying /\ Ticked
    /\ _time = tw[id]._startTime + 250
    /\ made[id]["x"] = Num(0) /\ given[id]["x"] = Num(16)
    /\ tw[id].object["x"] = Num(8)

\* C7: TWEEN.update returns true exactly when a Tween is in the registry
\* after the call.
\* (Refuted: the tick in which the last Tween completes returns true.)
C7_ReturnsWhetherAnyRemain ==
  Ticked => (lastOp.ret <=> Len(_tweens) > 0)

\* C7, amended: TWEEN.update returns true exactly when a Tween is in the
\* registry when the call begins.
C7_ReturnsWhetherAnyWereRegistered ==
  [][lastOp'.op = "update" => (lastOp'.ret <=> Len(_tweens) > 0)]_vars

\* C7, its case: a tick that returned true and left the registry empty
C7_Witness ==
  Ticked /\ lastOp.ret /\ Len(_tweens) = 0 /\ Emitted(1, "complete")

\* C8: over a Tween's whole life, repeat laps included, 'start' fires exactly
\* once: in the first update that is due (time >= start time), before that
\* update's 'update' event, and never in an update that is not due.
C8_StartFiresOnce ==
  \A id \in Tweens :
    /\ fired[id]["start"] <= 1
    /\ \A j \in 1 .. Len(emitted) :
         emitted[j] = <<id, "update">> =>
           /\ fired[id]["start"] = 1
           /\ \A i \in 1 .. Len(emitted) : emitted[i] = <<id, "start">> => i < j
    /\ Emitted(id, "start") => Ticked /\ Emitted(id, "update")
    /\ (Emitted(id, "start") /\ ~ Emitted(id, "repeat") /\ ~ Emitted(id, "reverse")) =>
         _time >= tw[id]._startTime

\* C8, its case: an update of a repeat lap, 'start' having fired in an earlier
\* update
C8_Witness ==
  \E id \in Tweens :
    /\ laps[id] >= 1 /\ tw[id]._r >= 1
    /\ fired[id]["start"] = 1
    /\ Ticked /\ Emitted(id, "update") /\ ~ Emitted(id, "start")

\* C9: with yoyo(true) and repeat(n), x at the end of lap k is the original
\* end value for odd k and the original start value for even k, and the run
\* ends after lap n + 1 with x at the value of that lap end (repeat(2) from 0
\* to 16: 16, 0, 16, final 16).
\* (Refuted: by C4's defect there is no last lap; x keeps alternating.)
C9_YoyoAlternatesAndEnds ==
  \A id \in Studied :
    ( /\ TweensX(id) /\ tw[id]._yoyo /\ tw[id]._r >= 1
      /\ tw[id]._duration > 0 /\ laps[id] < MaxLaps ) =>
      LET s == made[id]["x"]
          e == given[id]["x"]
          n == tw[id]._r
      IN /\ (Ticked /\ LapEnded(id)) =>
              tw[id].object["x"] = (IF laps[id] % 2 = 1 THEN e ELSE s)
         /\ laps[id] >= n + 1 =>
              /\ fired[id]["complete"] = 1
              /\ tw[id].object["x"] = (IF (n + 1) % 2 = 1 THEN e ELSE s)

\* C10: at a lap end followed by another lap exactly one of 'repeat' and
\* 'reverse' fires: 'reverse' when the next lap runs backward (under yoyo,
\* after an odd number of laps), 'repeat' when it runs forward; without yoyo
\* every lap runs forward, so 'reverse' never fires.
\* (Refuted: without yoyo every lap end fires 'reverse'.)
C10_LapEventTellsDirection ==
  \A id \in Studied :
    (Ticked /\ laps[id] < MaxLaps) =>
      LET backward == tw[id]._yoyo /\ laps[id] % 2 = 1 IN
      /\ Emitted(id, "reverse") => backward
      /\ Emitted(id, "repeat") => ~ backward
      /\ ~ (Emitted(id, "reverse") /\ Emitted(id, "repeat"))

\* the position of the first emission of name by Tween id in a record of
\* emissions, 0 if there is none
FirstAt(rec, id, name) ==
  IF \E i \in 1 .. Len(rec) : rec[i] = <<id, name>>
    THEN CHOOSE i \in 1 .. Len(rec) :
           /\ rec[i] = <<id, name>>
           /\ \A j \in 1 .. (i - 1) : rec[j] # <<id, name>>
    ELSE 0

C12_SeekSetsClock ==
  lastOp.op = "seek" =>
    _time - tw[lastOp.id]._startTime = Clamp(lastOp.time, tw[lastOp.id]._duration)

\* C13: with autoPlay on, start() of a Tween (which adds it) on an empty
\* registry whose loop is not started starts the loop: afterwards isStarted is
\* set and one frame callback is pending.  A frame callback that leaves Tweens
\* registered leaves one callback pending; a frame callback that finds the
\* registry empty stops the loop: no callback pending, isStarted cleared (so
\* that the next add starts a loop again).  isStarted holds exactly when a
\* callback is pending, and never more than one is.
\* (Refuted: a Tween that is already due when it is added completes inside
\* add(); the start of its chained successor calls add() before isStarted is
\* set, and autoStart and update recurse until the call stack is exhausted.)
C13_LoopFollowsRegistry ==
  [][ /\ (lastOp'.op = "start" /\ _autoPlay /\ ~ isStarted /\ Len(_tweens) = 0) =>
            (isStarted' /\ pending' = 1)
      /\ (lastOp'.op = "frame" /\ Len(_tweens') > 0) => (isStarted' /\ pending' = 1)
      /\ (lastOp'.op = "frame" /\ Len(_tweens) = 0) => (~ isStarted' /\ pending' = 0)
      /\ isStarted' <=> pending' = 1
      /\ pending' <= 1
    ]_vars

\* C14: a scheduler update returns, whatever handlers calling start(), stop()
\* or pause() on the same or another Tween run during it.
\* (Refuted: a handler of 'update' that calls start() on its own Tween appends
\* the Tween to the registry each time the loop updates it, so the loop never
\* reaches the end of the registry.)
C14_UpdateReturns ==
  lastOp.op = "update" => ~ hung

\* C15: on(name, handler) and once(name, handler) with a handler that is not a
\* function end in an error and leave the Tween's listener table as it was.
\* (Refuted: both register the value without looking at it; the error comes
\* when the event is emitted.)
C15_NonFunctionRejected ==
  [][ (lastOp'.op \in {"on", "once"} /\ lastOp'.kind # "function") =>
        (thrown' /\ tw'[lastOp'.id]._events = tw[lastOp'.id]._events) ]_vars

\* C16: while a Tween's end value for x is not a number and not an array (a
\* boolean, null, an object, a string that does not parse as a number), the
\* updates leave x of the target as it was at construction and raise no error.
\* (Refuted for the string: parseFloat gives NaN, typeof NaN is 'number', and
\* x is set to start + (NaN - start) * value = NaN.)
C16_NonNumericEndIsSkipped ==
  \A id \in Tweens :
    ("x" \in DOMAIN given[id] /\ given[id]["x"] \in {True, Null, AnObject, Str}) =>
      (~ thrown /\ tw[id].object["x"] = made[id]["x"])

\* C17: pause() on a Tween that is paused changes nothing of the Tweens, the
\* registry or the scheduler time, emits no event and raises no error; so two
\* pause() calls in a row emit 'pause' at most once, in the first.
C17_PauseIsIdempotent ==
  [][ \A id \in Tweens :
        (lastOp'.op = "pause" /\ lastOp'.id = id) =>
          /\ (halt[id] = "paused" \/ (lastOp.op = "pause" /\ lastOp.id = id)) =>
                /\ tw' = tw /\ _tweens' = _tweens /\ _time' = _time
                /\ emitted' = << >>
                /\ ~ thrown' /\ ~ hung'
          /\ Len(emitted') <= 1
    ]_vars

\* C17, its case: the second of two pause() calls on a started Tween has been
\* made (the first has emitted 'pause', the second nothing)
C17_Witness ==
  /\ lastOp.op = "pause" /\ lastOp.id = 1
  /\ halt[1] = "paused"
  /\ InRegistry(1)
  /\ emitted = << >>

\* C18: after removeAll(), whatever was registered, the registry is empty, and
\* a scheduler update that follows it returns false, updates no Tween and
\* emits nothing.
C18_RemoveAllEmpties ==
  [][ /\ lastOp'.op = "removeAll" => Len(_tweens') = 0
      /\ (lastOp.op = "removeAll" /\ lastOp'.op = "update") =>
            /\ lastOp'.ret = FALSE
            /\ tw' = tw
            /\ emitted' = << >>
            /\ Len(_tweens') = 0
    ]_vars

\* C18, its case: an update has returned false on a registry that removeAll()
\* emptied while Tween 1 was started and had not completed
C18_Witness ==
  /\ Ticked /\ lastOp.ret = FALSE
  /\ Len(_tweens) = 0
  /\ tw[1]._isPlaying
  /\ fired[1]["complete"] = 0
  /\ _time > 0
\* the value the interpolation of a and b has at t: what a new interpolator
\* over the same endpoints answers to f(t)
ValueAt(kind, a, b, t) ==
  Held(CallInterpolator(Factory(kind, a, b), t).f,
       CallInterpolator(Factory(kind, a, b), t).ret)

\* C19: an interpolator has no mutable state: after any sequence of calls
\* f(t1), f(t2), .. on one interpolator, every value that was returned is
\* still the interpolation at its own t
C19_ReturnedValuesStay ==
  \A i \in 1 .. Len(ip.calls) :
    Held(ip.f, ip.calls[i].ret) = ValueAt(ip.kind, ip.a, ip.b, ip.calls[i].t)

\* the rounded linear blend of a channel of a and b at t, clamped to
\* [0, 255], 0 if it is NaN
ClampedBlend(a, b, ch, t) ==
  LET v == Clamp255(MathRound(Sum(rgb(a)[ch],
                                  Times(Minus(rgb(b)[ch], rgb(a)[ch]), t))))
  IN IF v.k = "number" THEN v.num ELSE 0

\* two lowercase hex digits of n in 0 .. 255
TwoDigits(n) == <<HexDigits[(n \div 16) + 1], HexDigits[(n % 16) + 1]>>

\* C20: for all colors a, b and every progress t, also outside [0, 1], the
\* color interpolator returns "#" and six lowercase hex digits, each channel
\* the rounded linear blend of the endpoint channels clamped to [0, 255]
C20_ColorIsSixHexDigits ==
  ip.kind = "rgb" =>
    \A i \in 1 .. Len(ip.calls) :
      ip.calls[i].ret =
        <<"#">> \o TwoDigits(ClampedBlend(ip.a, ip.b, "r", ip.calls[i].t))
                \o TwoDigits(ClampedBlend(ip.a, ip.b, "g", ip.calls[i].t))
                \o TwoDigits(ClampedBlend(ip.a, ip.b, "b", ip.calls[i].t))

\* C26: f = interpolateNumber(a, b) has f(0) = a, f(1) = b and
\* f(1/2) = (a + b) / 2, and f(t) = a + (b - a) * t also outside [0, 1]
C26_NumberIsLinear ==
  ip.kind = "number" =>
    \A i \in 1 .. Len(ip.calls) :
      LET t == ip.calls[i].t
          ret == ip.calls[i].ret
      IN /\ t = Whole(0) => ret = ip.a
         /\ t = Whole(1) => ret = ip.b
         /\ t = Ratio(1, 2) => ret = Ratio(ip.a.num + ip.b.num, 2)
         /\ ret = Ratio(ip.a.num * t.den + (ip.b.num - ip.a.num) * t.num,
                        t.den)

\* different numbers interpolated at 1/2 and outside [0, 1]
C26_Witness ==
  /\ ip.kind = "number"
  /\ ip.a # ip.b
  /\ \E i \in 1 .. Len(ip.calls) : ip.calls[i].t = Ratio(1, 2)
  /\ \E i \in 1 .. Len(ip.calls) : ip.calls[i].t = Whole(2)
  /\ \E i \in 1 .. Len(ip.calls) : ip.calls[i].t = Ratio(0 - 1, 1)

\* the #rrggbb form of a color string "#rgb" or "#rrggbb"
Normalized(s) ==
  IF Len(s) = 4 THEN <<"#", s[2], s[2], s[3], s[3], s[4], s[4]>> ELSE s

\* C25: for parseable color strings a and b, the color interpolator returns
\* the normalized #rrggbb form of a at t = 0 and that of b at t = 1
C25_ColorEndpoints ==
  (ip.kind = "rgb" /\ color(ip.a).ok /\ color(ip.b).ok) =>
    \A i \in 1 .. Len(ip.calls) :
      /\ ip.calls[i].t = Whole(0) => ip.calls[i].ret = Normalized(ip.a)
      /\ ip.calls[i].t = Whole(1) => ip.calls[i].ret = Normalized(ip.b)

\* a shorthand color and another color, interpolated at 0 and at 1
C25_Witness ==
  /\ ip.kind = "rgb"
  /\ color(ip.a).ok /\ color(ip.b).ok
  /\ Len(ip.a) = 4
  /\ Normalized(ip.a) # Normalized(ip.b)
  /\ \E i \in 1 .. Len(ip.calls) : ip.calls[i].t = Whole(0)
  /\ \E i \in 1 .. Len(ip.calls) : ip.calls[i].t = Whole(1)

\* the last call made on the interpolator under test
LastCall == ip.calls[Len(ip.calls)]

\* C22: interpolateArray(a, b)(t) is an array as long as the longer of a and
\* b; below the length of the shorter it holds interpolate(a[i], b[i])(t),
\* from there on the elements of the longer input, whatever t is
C22_ArrayPadsWithLonger ==
  (ip.kind = "array" /\ Len(ip.calls) > 0) =>
    LET na == Len(ip.a)
        nb == Len(ip.b)
        longer == IF na > nb THEN ip.a ELSE ip.b
        result == Held(ip.f, LastCall.ret)
    IN /\ Len(result) = Len(longer)
       /\ \A i \in 1 .. Len(result) :
            IF i <= na /\ i <= nb
              THEN result[i] =
                     Sum(ip.a[i], Times(Minus(ip.b[i], ip.a[i]), LastCall.t))
              ELSE result[i] = longer[i]

\* arrays of different lengths with different first elements, called
C22_Witness ==
  /\ ip.kind = "array"
  /\ Len(ip.calls) > 0
  /\ Len(ip.a) = 1 /\ Len(ip.b) = 2
  /\ ip.a[1] # ip.b[1]
  /\ LastCall.t = Ratio(1, 2)

\* the numeric tokens of s from position p on, in order
RECURSIVE Tokens(_, _)
Tokens(s, p) ==
  IF Exec(s, p).index = 0 THEN << >>
  ELSE <<Exec(s, p)>> \o Tokens(s, Exec(s, p).index + Exec(s, p).len)

\* the text of b from position p on, in which token i and the tokens after it
\* are replaced by the blend at t with the token of a of the same rank, where
\* a has one and it differs
RECURSIVE Replaced(_, _, _, _, _, _, _)
Replaced(a, b, ta, tb, i, p, t) ==
  IF i > Len(tb) THEN Slice(b, p, Len(b))
  ELSE Slice(b, p, tb[i].index - 1)
       \o (IF i <= Len(ta) /\ Matched(a, ta[i]) # Matched(b, tb[i])
             THEN NumberToString(
                    Sum(ToNumber(Matched(a, ta[i])),
                        Times(Minus(ToNumber(Matched(b, tb[i])),
                                    ToNumber(Matched(a, ta[i]))), t)))
             ELSE Matched(b, tb[i]))
       \o Replaced(a, b, ta, tb, i + 1, tb[i].index + tb[i].len, t)

\* C23: interpolateString(a, b)(t) is the text of b in which the i-th numeric
\* token of b is replaced by the linear blend at t of the i-th tokens of a
\* and b, for every i up to the smaller token count; identical tokens, the
\* literal text of b, its tokens without a counterpart and its suffix stay
C23_StringBlendsTokens ==
  ip.kind = "string" =>
    \A i \in 1 .. Len(ip.calls) :
      ip.calls[i].ret =
        Replaced(ip.a, ip.b, Tokens(ip.a, 1), Tokens(ip.b, 1), 1, 1,
                 ip.calls[i].t)

\* "a: 1px" and "a: 10px" interpolated at 1/2 give "a: 5.5px"
C23_Witness ==
  /\ ip.kind = "string"
  /\ ip.a = <<"a", ":", " ", "1", "p", "x">>
  /\ ip.b = <<"a", ":", " ", "1", "0", "p", "x">>
  /\ \E i \in 1 .. Len(ip.calls) :
       /\ ip.calls[i].t = Ratio(1, 2)
       /\ ip.calls[i].ret = <<"a", ":", " ", "5", ".", "5", "p", "x">>

\* the number interpolator of the rotation, in q after those of a translation
RotationEntry ==
  ip.f.x[IF ip.a.translate # ip.b.translate THEN 3 ELSE 1]

\* C24: in interpolateTransform, rotations ra and rb in [-180, 180] that
\* differ are interpolated between two endpoints congruent to ra and rb
\* modulo 360 whose difference is at most 180 in absolute value
C24_RotationTakesShorterArc ==
  (ip.kind = "transform" /\ ip.a.rotate # ip.b.rotate) =>
    LET from == RotationEntry.a
        to == Sum(RotationEntry.a, RotationEntry.b)
    IN /\ from.den = 1 /\ to.den = 1
       /\ (from.num - ip.a.rotate.num) % 360 = 0
       /\ (to.num - ip.b.rotate.num) % 360 = 0
       /\ Abs(to.num - from.num) <= 180

\* rotations more than 180 degrees apart, in a translated transform, called
C24_Witness ==
  /\ ip.kind = "transform"
  /\ ip.a.rotate = Whole(135) /\ ip.b.rotate = Whole(0 - 135)
  /\ ip.a.translate # ip.b.translate
  /\ Len(ip.calls) > 0
  /\ LastCall.t = Ratio(1, 2)

\* the detectors of the list that answer an interpolator for the type
Answering(type) ==
  {i \in 1 .. Len(interpolators) : type \in interpolators[i].on}

\* the one registered last among them
LastAnswering(type) ==
  CHOOSE i \in Answering(type) : \A j \in Answering(type) : j <= i

\* C21: interpolate(a, b) consults the detectors from the last registered to
\* the first and returns the first truthy result: a detector pushed later
\* overrides the default chain exactly for the inputs on which it answers an
\* interpolator, and the other inputs fall through to the earlier detectors
C21_LastRegisteredWins ==
  lastOp.op = "interpolate" =>
    IF interpolators[LastAnswering(ip.kind)].id = 0
      THEN ip.f.kind # "custom" /\ ip.f = DefaultChain(ip.kind, ip.a, ip.b)
      ELSE /\ ip.f.kind = "custom"
           /\ ip.f = Custom(interpolators[LastAnswering(ip.kind)].id)

\* the detector pushed last declines the input, the one pushed before it
\* answers, and the default one is not reached
C21_Witness ==
  /\ lastOp.op = "interpolate"
  /\ Len(interpolators) = 3
  /\ ip.kind \notin interpolators[3].on
  /\ ip.kind \in interpolators[2].on
  /\ ip.f.kind = "custom"
  /\ ip.f = Custom(interpolators[2].id)

\* no Tween is registered twice
Distinct(reg) ==
  \A i, j \in 1 .. Len(reg) : reg[i] = reg[j] => i = j

C28_OtherPropertiesKept ==
  \A id \in Tweens :
    \A p \in DOMAIN made[id] \ DOMAIN given[id] :
      tw[id].object[p] = made[id][p]

\* C30: in every reachable state of a Tween, the keys of _valuesStart and of
\* _valuesStartRepeat are keys of _valuesEnd
C30_StartKeysWithinEndKeys ==
  \A id \in Tweens :
    /\ DOMAIN tw[id]._valuesStart \subseteq DOMAIN tw[id]._valuesEnd
    /\ DOMAIN tw[id]._valuesStartRepeat \subseteq DOMAIN tw[id]._valuesEnd

\* C29: with autoPlay enabled at most one animation-frame loop is running,
\* that is, at most one frame callback is pending at any time: add() never
\* launches a second loop while one is starting or running
C29_OneLoop == _autoPlay => pending <= 1

\* C31: isPlaying() returns true exactly when the Tween is in the scheduler's
\* registry: true after start() or play(), false after the Tween has
\* completed, been stopped or been paused
C31_PlayingIffRegistered ==
  \A id \in Tweens : tw[id]._isPlaying <=> InRegistry(id)

\* the Tweens handed to chain() on Tween id
Successors(t, id) ==
  {t[id]._chainedTweens[k] : k \in 1 .. Len(t[id]._chainedTweens)}

\* S and the Tweens reached from it in up to n chain links, going on from the
\* Tweens in through only
RECURSIVE Closure(_, _, _, _)
Closure(t, S, through, n) ==
  IF n = 0 THEN S
  ELSE Closure(t, S \cup UNION {Successors(t, j) : j \in S \cap through},
               through, n - 1)

\* the Tweens reachable from Tween id through chain() links
Reachable(t, id) ==
  Closure(t, Successors(t, id), DOMAIN t, Cardinality(DOMAIN t))

\* the Tweens reachable from Tween id through chain() links that lead through
\* playing Tweens only
ReachablePlaying(t, id) ==
  Closure(t, Successors(t, id), {j \in DOMAIN t : t[j]._isPlaying},
          Cardinality(DOMAIN t))

\* C32: after stop() on a playing Tween has returned, no Tween reachable from
\* it through chain() links is playing
C32_ChainIsStopped ==
  [][(lastOp'.op = "stop" /\ tw[lastOp'.id]._isPlaying) =>
       \A j \in Reachable(tw, lastOp'.id) : ~ tw'[j]._isPlaying]_vars

\* C32 (amended): after stop() on a playing Tween has returned, the Tween is
\* not playing, and no Tween is playing that is reachable from it through
\* chain() links leading through Tweens that were playing when stop() was
\* called
C32_PlayingChainIsStopped ==
  [][(lastOp'.op = "stop" /\ tw[lastOp'.id]._isPlaying) =>
       /\ ~ tw'[lastOp'.id]._isPlaying
       /\ \A j \in ReachablePlaying(tw, lastOp'.id) : ~ tw'[j]._isPlaying]_vars

\* stop() on Tween 1 has stopped Tween 3 through Tween 2: all three were
\* playing and the last operation was stop() on Tween 1
C32_Witness ==
  /\ lastOp.op = "stop" /\ lastOp.id = 1
  /\ tw[1]._chainedTweens = <<2>> /\ tw[2]._chainedTweens = <<3>>
  /\ emitted = <<<<3, "stop">>, <<2, "stop">>, <<1, "stop">>>>
  /\ \A j \in Linked : ~ tw[j]._isPlaying

\* every property of the map handed to to() has its end value in the target
AtEnd(t, properties) ==
  \A p \in DOMAIN properties : Get(t.object, p) = properties[p]

\* C33: after end() on a started Tween with repeat 0 and a positive duration
\* the Tween is at elapsed = 1: every numeric property of the end map has its
\* end value in the target, and later scheduler update() calls leave those
\* values in place and do not fire 'complete' again
C33_EndIsFinal ==
  [][\A id \in Tweens :
       (tw[id]._r = 0 /\ tw[id]._duration > 0 /\ tw[id]._isPlaying) =>
         /\ (lastOp'.op = "end" /\ lastOp'.id = id) => AtEnd(tw'[id], given[id])
         /\ (halt[id] = "ended" /\ lastOp'.op = "update") =>
              /\ AtEnd(tw'[id], given[id])
              /\ \A i \in 1 .. Len(emitted') : emitted'[i] # <<id, "complete">>
    ]_vars

\* C34: after off(name, fn) the listener fn is no longer invoked when the
\* event name is emitted (the other listeners registered for name still are)
C34_OffedIsSilent ==
  \A i \in 1 .. Len(called) : called[i] \notin offed

\* C35: the listeners registered with on(name, g) are invoked on every emit
\* of name, also after a listener registered with once(name, f) for the same
\* event has fired
C35_OnSurvivesOnce ==
  [][\A id \in Tweens, name \in OffEvents :
       (~ thrown' /\ \E n \in 1 .. Len(emitted') : emitted'[n] = <<id, name>>) =>
         \A l \in onned :
           (l[1] = id /\ l[2] = name) =>
             \E i \in 1 .. Len(called') : called'[i] = l]_vars

\* C36: a Tween whose end map holds an array and on which interpolation(fn)
\* was never called has a usable default interpolation function: update()
\* computes the property from the array and does not throw
C36_DefaultInterpolationWorks ==
  \A id \in Tweens :
    (lastOp.op = "update" /\ tw[id]._interpolationFunction = InterpolationTable("None")
       /\ \E p \in DOMAIN given[id] : IsArray(given[id][p])) =>
      /\ ~ thrown
      /\ Emitted(id, "complete") =>
           \A p \in DOMAIN given[id] :
             IsArray(given[id][p]) => Get(tw[id].object, p) = Num(given[id][p].n)

\* C37: every function of the Easing table maps progress 0 to 0 and progress
\* 1 to 1, so that under every easing the numeric properties of a Tween have
\* their start values at elapsed = 0 and their end values at elapsed = 1
C37_EasingFixesEndpoints ==
  \A id \in Tweens :
    (lastOp.op = "update" /\ Emitted(id, "update")) =>
      /\ Ease(tw[id]._easingFunction, Frac(0, 1)) = Whole(0)
      /\ Ease(tw[id]._easingFunction, Frac(1, 1)) = Whole(1)
      /\ \A p \in DOMAIN given[id] :
           /\ _time = tw[id]._startTime => tw[id].object[p] = tw[id]._valuesStart[p]
           /\ Emitted(id, "complete") => tw[id].object[p] = given[id][p]

\* no other Tween has Tween id as chained successor
Unchained(id) ==
  \A j \in DOMAIN tw : \A k \in 1 .. Len(tw[j]._chainedTweens) :
    tw[j]._chainedTweens[k] # id

\* C38: a Tween update with time < _startTime is a no-op: it changes no
\* property of the target and no field of the Tween, fires no event (not even
\* 'start'), and reports the Tween as still active, so that the scheduler
\* keeps it registered
C38_PendingUpdateIsNoOp ==
  [][\A id \in Tweens :
       (lastOp'.op = "update" /\ InRegistry(id) /\ Unchained(id)
          /\ _time' < tw[id]._startTime) =>
         /\ updated'[id] >= 1
         /\ tw'[id] = tw[id]
         /\ \A i \in 1 .. Len(emitted') : emitted'[i][1] # id
         /\ \E i \in 1 .. Len(_tweens') : _tweens'[i] = id]_vars

\* the scheduler has updated Tween 1 before its start time, while Tween 2
\* was due: Tween 1 is registered, has fired nothing and is as it was started
C38_Witness ==
  /\ lastOp.op = "update"
  /\ InRegistry(1)
  /\ updated[1] = 1
  /\ _time < tw[1]._startTime
  /\ ~ tw[1]._onStartCallbackFired
  /\ fired[1]["start"] = 0
  /\ tw[1].object = made[1]
  /\ Emitted(2, "update")

====
